---- MODULE Spec2Model ----
(***************************************************************************)
(* Verification development for the AOC2025 puzzle scripts.  Each day is   *)
(* an independent program; each has its own variables and its own          *)
(* specification (SpecDay4, SpecDay8, ...).  While one day's program runs  *)
(* the variables of the other days stay at their idle values.              *)
(***************************************************************************)
EXTENDS Integers, Sequences, FiniteSets, TLC

VARIABLES
    \* day4/main.py
    input_lines, grid_map, p1_rolls, total_rolls, rounds4, pc4,
    \* day8/main.py
    coords, distances, connections, group_id, i8, last_connection, result8,
    out8, pc8,
    \* day10/main.py
    light, buttons, queue, visited, min_presses, pc10,
    \* day7/main.py
    grid7, start_pos, grid_len, row_len, unique_paths, pc7,
    \* day2/agent.py (and the finders of day02/main.py, run on the same ids)
    ranges, validator, ri, product_id, invalid_ids, invalid_ids02, total_sum,
    pc2,
    \* day1/agent.py simulate_rotation and the turn functions of day1/main.py,
    \* applied to one rotation
    start_position, direction, distance, count_during, result, main_result,
    pcT,
    \* day1/agent.py calculate_password, day1/main.py main_1 and main_2
    method, current_position, total_zero_crossings, n1, curr_1, count_1,
    curr_2, zero_count_2, net_distance, pc1,
    \* day10/main.py p2
    steps, si, ints, nonneg, equalities, model_m, min_presses_p2, p2_res, pc10b,
    \* day7/main.py solve_1
    grid1, start_pos1, grid_len1, row_len1, cache, split_count, expanded, pc7a,
    \* day2/agent.py parse_input
    range_str, parsed, n_items, error, returned, pc2p,
    \* day02/main.py main, Part 1 loop
    item02, handed02, n02, pc02,
    \* day05/main.py read_input
    line05, ranges05, ingredients05, sorted05, n05, pc05,
    \* day1/agent.py parse_rotations
    line1, rotations1, line_num, raw_num, stripped1, error1, result1, pc1p,
    \* main of the scripts: input file, parsing, output
    script, file_exists, raised, exit_code, printed, pc_main,
    \* day05/main.py all_fresh
    ranges_f, i_f, start_f, end_f, fresh_count, result_f, pc05f,
    \* day03/main.py and day3/main.py, Part 2
    bank03, res_grouped, res_recursive, pc03,
    \* day4: clearing one cell at a time, replayed on the input of main
    grid_one, cleared_one

vars4 == <<input_lines, grid_map, p1_rolls, total_rolls, rounds4, pc4>>
vars8 == <<coords, distances, connections, group_id, i8, last_connection,
           result8, out8, pc8>>

vars10 == <<light, buttons, queue, visited, min_presses, pc10>>

vars7 == <<grid7, start_pos, grid_len, row_len, unique_paths, pc7>>

vars2 == <<ranges, validator, ri, product_id, invalid_ids, invalid_ids02,
           total_sum, pc2>>

varsT == <<start_position, direction, distance, count_during, result,
           main_result, pcT>>
vars1 == <<method, current_position, total_zero_crossings, n1, curr_1, count_1,
           curr_2, zero_count_2, net_distance, pc1>>

vars10b == <<steps, si, ints, nonneg, equalities, model_m, min_presses_p2, p2_res, pc10b>>

vars7a == <<grid1, start_pos1, grid_len1, row_len1, cache, split_count, expanded, pc7a>>

vars2p == <<range_str, parsed, n_items, error, returned, pc2p>>

vars02m == <<item02, handed02, n02, pc02>>

vars05 == <<line05, ranges05, ingredients05, sorted05, n05, pc05>>

vars1p == <<line1, rotations1, line_num, raw_num, stripped1, error1, result1, pc1p>>

varsmn == <<script, file_exists, raised, exit_code, printed, pc_main>>

vars05f == <<ranges_f, i_f, start_f, end_f, fresh_count, result_f, pc05f>>

vars03 == <<bank03, res_grouped, res_recursive, pc03>>

vars4o == <<grid_one, cleared_one>>

vars == <<vars4, vars8, vars10, vars7, vars2, varsT, vars1, vars10b, vars7a, vars2p, vars02m, vars05, vars1p, varsmn, vars05f, vars03, vars4o>>

(***************************************************************************)
(* Each script is a separate process: while one runs, the state of the     *)
(* others is idle and unchanged.                                           *)
(***************************************************************************)
Idle4 ==
    /\ input_lines = <<>>
    /\ grid_map = <<>>
    /\ p1_rolls = 0
    /\ total_rolls = 0
    /\ rounds4 = 0
    /\ pc4 = "idle"

\* last_connection = None
None8 == <<>>

Idle8 ==
    /\ coords = <<>>
    /\ distances = <<>>
    /\ connections = <<>>
    /\ group_id = 0
    /\ i8 = 0
    /\ last_connection = None8
    /\ result8 = 0
    /\ out8 = <<>>
    /\ pc8 = "idle"

Idle10 ==
    /\ light = <<>>
    /\ buttons = <<>>
    /\ queue = <<>>
    /\ visited = {}
    /\ min_presses = <<>>
    /\ pc10 = "idle"

Idle7 ==
    /\ grid7 = <<>>
    /\ start_pos = <<0, 0>>
    /\ grid_len = 0
    /\ row_len = 0
    /\ unique_paths = 0
    /\ pc7 = "idle"

Idle2 ==
    /\ ranges = <<>>
    /\ validator = "none"
    /\ ri = 0
    /\ product_id = 0
    /\ invalid_ids = <<>>
    /\ invalid_ids02 = <<>>
    /\ total_sum = 0
    /\ pc2 = "idle"

IdleT ==
    /\ start_position = 0
    /\ direction = "none"
    /\ distance = 0
    /\ count_during = FALSE
    /\ result = <<>>
    /\ main_result = <<>>
    /\ pcT = "idle"

Idle1 ==
    /\ method = "none"
    /\ current_position = 0
    /\ total_zero_crossings = 0
    /\ n1 = 0
    /\ curr_1 = 0
    /\ count_1 = 0
    /\ curr_2 = 0
    /\ zero_count_2 = 0
    /\ net_distance = 0
    /\ pc1 = "idle"

Idle10b ==
    /\ steps = <<>>
    /\ si = 0
    /\ ints = <<>>
    /\ nonneg = <<>>
    /\ equalities = <<>>
    /\ model_m = <<>>
    /\ min_presses_p2 = <<>>
    /\ p2_res = 0
    /\ pc10b = "idle"

Idle7a ==
    /\ grid1 = <<>>
    /\ start_pos1 = <<0, 0>>
    /\ grid_len1 = 0
    /\ row_len1 = 0
    /\ cache = {}
    /\ split_count = 0
    /\ expanded = <<>>
    /\ pc7a = "idle"

Idle2p ==
    /\ range_str = <<>>
    /\ parsed = <<>>
    /\ n_items = 0
    /\ error = <<>>
    /\ returned = <<"None">>
    /\ pc2p = "idle"

Idle02m ==
    /\ item02 = <<>>
    /\ handed02 = <<>>
    /\ n02 = 0
    /\ pc02 = "idle"

Idle05 ==
    /\ line05 = <<>>
    /\ ranges05 = {}
    /\ ingredients05 = {}
    /\ sorted05 = <<>>
    /\ n05 = 0
    /\ pc05 = "idle"

Idle1p ==
    /\ line1 = <<>>
    /\ rotations1 = <<>>
    /\ line_num = 0
    /\ raw_num = 0
    /\ stripped1 = 0
    /\ error1 = <<>>
    /\ result1 = <<"None">>
    /\ pc1p = "idle"

Idlemn ==
    /\ script = "none"
    /\ file_exists = FALSE
    /\ raised = "none"
    /\ exit_code = <<>>
    /\ printed = <<>>
    /\ pc_main = "idle"

Idle05f ==
    /\ ranges_f = <<>>
    /\ i_f = 0
    /\ start_f = <<>>
    /\ end_f = <<>>
    /\ fresh_count = 0
    /\ result_f = <<>>
    /\ pc05f = "idle"

Idle03 ==
    /\ bank03 = <<>>
    /\ res_grouped = <<>>
    /\ res_recursive = <<>>
    /\ pc03 = "idle"

Idle4o ==
    /\ grid_one = <<>>
    /\ cleared_one = 0

Others4 == <<vars8, vars10, vars7, vars2, varsT, vars1, vars10b, vars7a, vars2p, vars02m, vars05, vars1p, varsmn, vars05f, vars03, vars4o>>
Others8 == <<vars4, vars10, vars7, vars2, varsT, vars1, vars10b, vars7a, vars2p, vars02m, vars05, vars1p, varsmn, vars05f, vars03, vars4o>>
Others10 == <<vars4, vars8, vars7, vars2, varsT, vars1, vars10b, vars7a, vars2p, vars02m, vars05, vars1p, varsmn, vars05f, vars03, vars4o>>
Others7 == <<vars4, vars8, vars10, vars2, varsT, vars1, vars10b, vars7a, vars2p, vars02m, vars05, vars1p, varsmn, vars05f, vars03, vars4o>>
Others2 == <<vars4, vars8, vars10, vars7, varsT, vars1, vars10b, vars7a, vars2p, vars02m, vars05, vars1p, varsmn, vars05f, vars03, vars4o>>
OthersT == <<vars4, vars8, vars10, vars7, vars2, vars1, vars10b, vars7a, vars2p, vars02m, vars05, vars1p, varsmn, vars05f, vars03, vars4o>>
Others1 == <<vars4, vars8, vars10, vars7, vars2, varsT, vars10b, vars7a, vars2p, vars02m, vars05, vars1p, varsmn, vars05f, vars03, vars4o>>
Others10b == <<vars4, vars8, vars10, vars7, vars2, varsT, vars1, vars7a, vars2p, vars02m, vars05, vars1p, varsmn, vars05f, vars03, vars4o>>
Others7a == <<vars4, vars8, vars10, vars7, vars2, varsT, vars1, vars10b, vars2p, vars02m, vars05, vars1p, varsmn, vars05f, vars03, vars4o>>
Others2p == <<vars4, vars8, vars10, vars7, vars2, varsT, vars1, vars10b, vars7a, vars02m, vars05, vars1p, varsmn, vars05f, vars03, vars4o>>
Others02m == <<vars4, vars8, vars10, vars7, vars2, varsT, vars1, vars10b, vars7a, vars2p, vars05, vars1p, varsmn, vars05f, vars03, vars4o>>
Others05 == <<vars4, vars8, vars10, vars7, vars2, varsT, vars1, vars10b, vars7a, vars2p, vars02m, vars1p, varsmn, vars05f, vars03, vars4o>>
Others1p == <<vars4, vars8, vars10, vars7, vars2, varsT, vars1, vars10b, vars7a, vars2p, vars02m, vars05, varsmn, vars05f, vars03, vars4o>>
Othersmn == <<vars4, vars8, vars10, vars7, vars2, varsT, vars1, vars10b, vars7a, vars2p, vars02m, vars05, vars1p, vars05f, vars03, vars4o>>
OthersmnParsers == <<vars4, vars8, vars10, vars7, vars2, varsT, vars1, vars10b, vars7a, vars02m, vars05, vars05f, vars03, vars4o>>
Others05f == <<vars4, vars8, vars10, vars7, vars2, varsT, vars1, vars10b, vars7a, vars2p, vars02m, vars05, vars1p, varsmn, vars03, vars4o>>
Others03 == <<vars4, vars8, vars10, vars7, vars2, varsT, vars1, vars10b, vars7a, vars2p, vars02m, vars05, vars1p, varsmn, vars05f, vars4o>>
Others4o == <<vars4, vars8, vars10, vars7, vars2, varsT, vars1, vars10b, vars7a, vars2p, vars02m, vars05, vars1p, varsmn, vars05f, vars03>>

(***************************************************************************)
(* Helpers                                                                 *)
(***************************************************************************)
RECURSIVE SubsetsUpTo(_, _)
\* All subsets of S with at most k elements.
SubsetsUpTo(S, k) ==
    IF k = 0 \/ S = {} THEN {{}}
    ELSE LET smaller == SubsetsUpTo(S, k - 1)
         IN  smaller \cup {s \cup {x} : s \in smaller, x \in S}

(***************************************************************************)
(* day4/main.py : grid neighbour-rule automaton                            *)
(***************************************************************************)
GridRows == 4
GridCols == 5
MaxEmpty == 2

Cells4 == (0 .. GridRows - 1) \X (0 .. GridCols - 1)

\* Excluding self / center square
square == {<<-1, -1>>, <<0, -1>>, <<1, -1>>, <<-1, 0>>,
           <<1, 0>>, <<-1, 1>>, <<0, 1>>, <<1, 1>>}

\* The inner loop of roll_access: the '@' cells among the 8 offsets of key.
\* (The loop leaves early once 4 are seen; only "fewer than 4" is read.)
at_count(g, key) ==
    Cardinality({d \in square :
        LET n == <<key[1] + d[1], key[2] + d[2]>>
        IN  n \in DOMAIN g /\ g[n] = "@"})

RECURSIVE roll_access_scan(_, _, _)
\* A scan over the keys in row-major order that clears each cell as soon as it
\* is found.
roll_access_scan(g, todo, found) ==
    IF todo = {} THEN found
    ELSE LET key == CHOOSE k \in todo :
                        \A o \in todo : k[1] < o[1] \/ (k[1] = o[1] /\ k[2] <= o[2])
         IN  IF g[key] = "@" /\ at_count(g, key) < 4
             THEN roll_access_scan([g EXCEPT ![key] = "."], todo \ {key},
                                   found \cup {key})
             ELSE roll_access_scan(g, todo \ {key}, found)

\* A plausible slip: the cells cleared in place during the scan.
roll_access_inplace(g) == roll_access_scan(g, DOMAIN g, {})

\* A plausible slip: the threshold off by one.
roll_access_lt3(g) ==
    {key \in DOMAIN g : g[key] = "@" /\ at_count(g, key) < 3}

\* The keys of rolls_for_deletion (every value of that dict is ".").
roll_access(g) ==
    {key \in DOMAIN g : g[key] = "@" /\ at_count(g, key) < 4}

\* A plausible slip: the update of line 56 left out.
update_noop(g, rolls) == g

\* grid_map.update(rolls)
update(g, rolls) == [key \in DOMAIN g |-> IF key \in rolls THEN "." ELSE g[key]]

\* main, lines 39-42: the grid read from an input file of the given cells,
\* at most k of them empty.
ReadGridOf4(cells, k) ==
    /\ \E empty \in SubsetsUpTo(cells, k) :
           input_lines = [key \in cells |-> IF key \in empty THEN "." ELSE "@"]
    /\ grid_map = input_lines
    /\ p1_rolls = 0
    /\ total_rolls = 0
    /\ rounds4 = 0
    /\ pc4 = "part1"

\* main, lines 44-46.
Part1_4 ==
    /\ pc4 = "part1"
    /\ p1_rolls' = Cardinality(roll_access(grid_map))
    /\ pc4' = "loop"
    /\ UNCHANGED <<input_lines, grid_map, total_rolls, rounds4>>
    /\ UNCHANGED Others4

\* A plausible slip: the round's count replaces the running total.
MainLoop4_recount ==
    /\ pc4 = "loop"
    /\ LET rolls == roll_access(grid_map)
       IN  IF Cardinality(rolls) = 0
           THEN /\ pc4' = "done"
                /\ UNCHANGED <<grid_map, total_rolls>>
           ELSE /\ total_rolls' = Cardinality(rolls)
                /\ grid_map' = update(grid_map, rolls)
                /\ pc4' = "loop"
    /\ rounds4' = rounds4 + 1
    /\ UNCHANGED <<input_lines, p1_rolls>>
    /\ UNCHANGED Others4

\* main, lines 50-56: one iteration of the while loop.  rounds4 counts the
\* iterations, the one that breaks included.
MainLoop4 ==
    /\ pc4 = "loop"
    /\ LET rolls == roll_access(grid_map)
       IN  IF Cardinality(rolls) = 0
           THEN /\ pc4' = "done"
                /\ UNCHANGED <<grid_map, total_rolls>>
           ELSE /\ total_rolls' = total_rolls + Cardinality(rolls)
                /\ grid_map' = update(grid_map, rolls)
                /\ pc4' = "loop"
    /\ rounds4' = rounds4 + 1
    /\ UNCHANGED <<input_lines, p1_rolls>>
    /\ UNCHANGED Others4

\* main, lines 39-42, on the grids of Cells4.
ReadGrid4 == ReadGridOf4(Cells4, MaxEmpty)

InitDay4 ==
    /\ Idle8 /\ Idle10 /\ Idle7 /\ Idle2 /\ IdleT /\ Idle1 /\ Idle10b
    /\ Idle7a /\ Idle2p /\ Idle02m /\ Idle05 /\ Idle1p /\ Idlemn /\ Idle05f
    /\ Idle03 /\ Idle4o
    /\ ReadGrid4

NextDay4 == Part1_4 \/ MainLoop4

SpecDay4 == InitDay4 /\ [][NextDay4]_vars

\* The '@' cells among the cells that touch c (sides and corners), counted
\* from the geometry, not from the offset table.
OccupiedAround(g, c) ==
    {n \in DOMAIN g :
        /\ n # c
        /\ n[1] - c[1] \in {-1, 0, 1}
        /\ n[2] - c[2] \in {-1, 0, 1}
        /\ g[n] = "@"}

\* C1: when the removal loop of day4 main stops, the grid is a fixed point:
\* every cell still holding '@' has at least 4 of its 8 neighbours holding
\* '@', and one more call of roll_access returns the empty set.
C1_FixedPoint ==
    pc4 = "done" =>
        /\ \A c \in DOMAIN grid_map :
               grid_map[c] = "@" => Cardinality(OccupiedAround(grid_map, c)) >= 4
        /\ roll_access(grid_map) = {}

\* C1 witness: the loop stopped after more than one clearing round and
\* occupied cells remain.
C1_Witness ==
    /\ pc4 = "done"
    /\ total_rolls > p1_rolls
    /\ \E c \in DOMAIN grid_map : grid_map[c] = "@"

\* The cells of g that hold '@'.
Occupied(g) == {c \in DOMAIN g : g[c] = "@"}

\* The occupied cells of the input with fewer than 4 occupied neighbours.
FirstRound4 ==
    {c \in Occupied(input_lines) :
        Cardinality(OccupiedAround(input_lines, c)) < 4}

\* C13: the printed Part 1 value is the number of cells cleared in the first
\* round of the removal loop, and the printed Part 2 value is the total number
\* of cells cleared over all rounds: the number of '@' cells of the input
\* minus the number of '@' cells of the final grid.
C13_Outputs ==
    /\ pc4 \in {"loop", "done"} => p1_rolls = Cardinality(FirstRound4)
    /\ (pc4 = "loop" /\ Occupied(grid_map) = Occupied(input_lines) \ FirstRound4) =>
           total_rolls = p1_rolls
    /\ pc4 = "done" =>
           total_rolls = Cardinality(Occupied(input_lines))
                             - Cardinality(Occupied(grid_map))

\* C13 witness: both values are printed; the first round cleared some cells
\* and later rounds cleared more.
C13_Witness ==
    /\ pc4 = "done"
    /\ p1_rolls > 0
    /\ total_rolls > p1_rolls
    /\ Occupied(grid_map) # {}

(***************************************************************************)
(* day8/main.py : nearest-neighbour grouping                               *)
(***************************************************************************)
MaxX == 3
MaxY == 1
MaxZ == 0
MaxPoints == 4

Lattice8 == (0 .. MaxX) \X (0 .. MaxY) \X (0 .. MaxZ)

\* The lists read_input can return: distinct points, in file order.
CoordLists8 ==
    UNION {{c \in [1 .. n -> Lattice8] :
               \A j, k \in 1 .. n : j # k => c[j] # c[k]} : n \in 1 .. MaxPoints}

\* euclidean_distance is the square root of this sum; the list is sorted on
\* it, and the root keeps the order of the sums.
euclidean_distance_sq(a, b) ==
    (a[1] - b[1]) * (a[1] - b[1]) + (a[2] - b[2]) * (a[2] - b[2])
        + (a[3] - b[3]) * (a[3] - b[3])

\* main, lines 69-77: one entry per unordered pair, the point met first in
\* coords written first.
PairSet8(c) ==
    {<<c[x[1]], c[x[2]]>> :
        x \in {y \in (1 .. Len(c)) \X (1 .. Len(c)) : y[1] < y[2]}}

RECURSIVE SortedOrders8(_)
\* main, line 79: sorted() over a set.  Pairs of equal distance come in the
\* set's iteration order, which is arbitrary: every ascending order is one the
\* program can produce.
SortedOrders8(P) ==
    IF P = {} THEN {<<>>}
    ELSE LET least == {p \in P : \A q \in P :
                          euclidean_distance_sq(p[1], p[2])
                              <= euclidean_distance_sq(q[1], q[2])}
         IN  UNION {{<<p>> \o s : s \in SortedOrders8(P \ {p})} : p \in least}

\* Longer files: five points close together on a line and one far away, with
\* pairwise distances that are all different.
ClusterLists8 ==
    {<<<<0, 0, 0>>, <<1, 0, 0>>, <<3, 0, 0>>, <<7, 0, 0>>, <<15, 0, 0>>,
       <<f, 0, 0>>>> : f \in 40 .. 41}

\* main, lines 68-80, up to the call of p1 and p1's lines 22-24, for the
\* coordinate lists given.
Main8Of(lists) ==
    /\ \E c \in lists :
           /\ coords = c
           /\ distances \in SortedOrders8(PairSet8(c))
    /\ connections = <<>>
    /\ group_id = 1
    /\ i8 = 0
    /\ last_connection = None8
    /\ result8 = 0
    /\ out8 = <<>>
    /\ pc8 = "loop"

\* A plausible slip: only one member of old_group is relabelled.
Relabel8_one(conn, old_group, new_group) ==
    LET b == CHOOSE n \in DOMAIN conn : conn[n] = old_group
    IN  [node \in DOMAIN conn |-> IF node = b THEN new_group ELSE conn[node]]

\* p1, lines 36-38: relabel the members of old_group.
Relabel8(conn, old_group, new_group) ==
    [node \in DOMAIN conn |->
        IF conn[node] = old_group THEN new_group ELSE conn[node]]

\* p1, lines 52-56 (total_coords = len(coords), not zero).
AllInOneGroup8(conn, total_coords) ==
    /\ total_coords # 0
    /\ Cardinality(DOMAIN conn) = total_coords
    /\ Cardinality({conn[n] : n \in DOMAIN conn}) = 1

\* p1, lines 26-58: one iteration of the for loop (iter is math.inf).
P1Step8 ==
    /\ pc8 = "loop"
    /\ i8 < Len(distances)
    /\ LET a == distances[i8 + 1][1]
           b == distances[i8 + 1][2]
           D == DOMAIN connections
       IN  IF a \in D /\ b \in D
           THEN \* both already connected: merge if needed, then continue
                /\ connections' =
                       IF connections[a] # connections[b]
                       THEN Relabel8(connections, connections[b], connections[a])
                       ELSE connections
                /\ i8' = i8 + 1
                /\ UNCHANGED <<group_id, last_connection, pc8>>
           ELSE LET conn2 ==
                        IF a \notin D /\ b \notin D
                        THEN (a :> group_id) @@ (b :> group_id) @@ connections
                        ELSE IF a \in D
                        THEN (b :> connections[a]) @@ connections
                        ELSE (a :> connections[b]) @@ connections
                IN  /\ connections' = conn2
                    /\ group_id' = IF a \notin D /\ b \notin D
                                   THEN group_id + 1 ELSE group_id
                    /\ IF AllInOneGroup8(conn2, Len(coords))
                       THEN /\ last_connection' = <<a, b>>
                            /\ pc8' = "groups"
                            /\ UNCHANGED i8
                       ELSE /\ i8' = i8 + 1
                            /\ UNCHANGED <<last_connection, pc8>>
    /\ UNCHANGED <<coords, distances, result8, out8>>
    /\ UNCHANGED Others8

GroupSize8(conn, gid) == Cardinality({n \in DOMAIN conn : conn[n] = gid})

RECURSIVE ProdLargest8(_, _, _)
\* math.prod(sorted(sizes, reverse=True)[:k])
ProdLargest8(conn, G, k) ==
    IF k = 0 \/ G = {} THEN 1
    ELSE LET g == CHOOSE x \in G :
                      \A h \in G : GroupSize8(conn, x) >= GroupSize8(conn, h)
         IN  GroupSize8(conn, g) * ProdLargest8(conn, G \ {g}, k - 1)

\* p1, lines 60-64, once the loop has ended (by break or by exhaustion).
P1Return8 ==
    /\ \/ pc8 = "groups"
       \/ pc8 = "loop" /\ i8 >= Len(distances)
    /\ result8' = ProdLargest8(connections,
                               {connections[n] : n \in DOMAIN connections}, 3)
    /\ pc8' = "returned"
    /\ UNCHANGED <<coords, distances, connections, group_id, i8,
                   last_connection, out8>>
    /\ UNCHANGED Others8

\* main, lines 82-83.  Subscripting None raises TypeError after Part 1 has
\* been printed.
MainPrint8 ==
    /\ pc8 = "returned"
    /\ IF last_connection = None8
       THEN /\ out8' = <<result8>>
            /\ pc8' = "TypeError"
       ELSE /\ out8' = <<result8, last_connection[1][1] * last_connection[2][1]>>
            /\ pc8' = "done"
    /\ UNCHANGED <<coords, distances, connections, group_id, i8,
                   last_connection, result8>>
    /\ UNCHANGED Others8

\* main on the lattice lists and the cluster lists.
Main8 == Main8Of(CoordLists8 \cup ClusterLists8)

InitDay8 ==
    /\ Idle4 /\ Idle10 /\ Idle7 /\ Idle2 /\ IdleT /\ Idle1 /\ Idle10b
    /\ Idle7a /\ Idle2p /\ Idle02m /\ Idle05 /\ Idle1p /\ Idlemn /\ Idle05f
    /\ Idle03 /\ Idle4o
    /\ Main8

NextDay8 == P1Step8 \/ P1Return8 \/ MainPrint8

SpecDay8 == InitDay8 /\ [][NextDay8]_vars

RECURSIVE Linked8(_, _)
\* The points joined to a point of S by a chain of pairs of E.
Linked8(S, E) ==
    LET more == S \cup {e[1] : e \in {f \in E : f[2] \in S}}
                  \cup {e[2] : e \in {f \in E : f[1] \in S}}
    IN  IF more = S THEN S ELSE Linked8(more, E)

\* All points are in one group once the first k pairs are processed.
Unified8(k) ==
    Linked8({coords[1]}, {distances[j] : j \in 1 .. k})
        = {coords[j] : j \in 1 .. Len(coords)}

\* The 1-based index of the first pair after which all points are unified.
FirstUnifying8 ==
    CHOOSE k \in 1 .. Len(distances) :
        Unified8(k) /\ \A j \in 1 .. (k - 1) : ~Unified8(j)

\* C2: for at least 2 distinct points, p1 (iter = infinity, total_coords =
\* number of points) returns as last_connection the first pair of the sorted
\* list after whose processing all points are in one group, whether that pair
\* attaches a new point or bridges two existing groups.
C2_LastConnection ==
    (pc8 \in {"returned", "done", "TypeError"} /\ Len(coords) >= 2) =>
        last_connection = distances[FirstUnifying8]

\* p1, line 21: the number of pairs p1 processes when the caller passes none.
DefaultIter8 == 10

\* The groups after the first k pairs of the sorted list: the points that
\* occur in one of these pairs, split by the chains of pairs that join them.
Components8(k) ==
    LET E == {distances[j] : j \in 1 .. k}
    IN  {Linked8({p}, E) : p \in {e[1] : e \in E} \cup {e[2] : e \in E}}

RECURSIVE ProdLargestSets8(_, _)
\* The product of the k largest cardinalities of the sets of G.
ProdLargestSets8(G, k) ==
    IF k = 0 \/ G = {} THEN 1
    ELSE LET g == CHOOSE x \in G :
                      \A h \in G : Cardinality(x) >= Cardinality(h)
         IN  Cardinality(g) * ProdLargestSets8(G \ {g}, k - 1)

\* C11: the Part 1 value that main prints is the product of the three largest
\* group sizes after a fixed number of the closest pairs has been processed
\* (the default of p1, or every pair when the list is shorter), not the
\* product at the moment all points are unified.
C11_FixedNumber ==
    (pc8 \in {"done", "TypeError"}) =>
        out8[1] = ProdLargestSets8(
                      Components8(IF Len(distances) < DefaultIter8
                                  THEN Len(distances) ELSE DefaultIter8), 3)

(***************************************************************************)
(* day10/main.py : breadth-first search over light patterns (p1)           *)
(***************************************************************************)
NumLights == 3
MaxButtons == 3
MaxPresses == 4

\* A light pattern is a list of "." and "#", indexed from 0 in the code and
\* from 1 here.
Lights10 == [1 .. NumLights -> {".", "#"}]

\* A button is the list of the light indices it toggles (each index once).
Buttons10 == SUBSET (0 .. NumLights - 1) \ {{}}

ButtonLists10 == UNION {[1 .. n -> Buttons10] : n \in 1 .. MaxButtons}

\* press_button: toggle the lights the button names.
press_button(curr_light, button) ==
    [k \in 1 .. Len(curr_light) |->
        IF (k - 1) \in button
        THEN (IF curr_light[k] = "#" THEN "." ELSE "#")
        ELSE curr_light[k]]

\* p1, lines 120-122, for one machine of steps.
P1Start10 ==
    /\ light \in Lights10
    /\ buttons \in ButtonLists10
    /\ queue = [j \in 1 .. Len(buttons) |->
                   <<[k \in 1 .. NumLights |-> "."], buttons[j], 0>>]
    /\ visited = {}
    /\ min_presses = <<>>
    /\ pc10 = "while"

\* p1, lines 123-135: one iteration of the while loop.  The search has no
\* depth limit of its own; the model follows it up to MaxPresses presses.
P1Pop10 ==
    /\ pc10 = "while"
    /\ queue # <<>>
    /\ Head(queue)[3] < MaxPresses
    /\ LET curr_light == Head(queue)[1]
           presses == Head(queue)[3]
           rest == Tail(queue)
           hit == {j \in 1 .. Len(buttons) :
                      press_button(curr_light, buttons[j]) = light}
       IN  IF Head(queue) \in visited
           THEN /\ queue' = rest
                /\ UNCHANGED <<visited, min_presses>>
           ELSE /\ visited' = visited \cup {Head(queue)}
                /\ IF hit # {}
                   THEN /\ min_presses' = Append(min_presses, presses + 1)
                        /\ queue' = <<>>
                   ELSE /\ queue' = rest \o
                            [j \in 1 .. Len(buttons) |->
                                <<press_button(curr_light, buttons[j]),
                                  buttons[j], presses + 1>>]
                        /\ UNCHANGED min_presses
    /\ UNCHANGED <<light, buttons, pc10>>
    /\ UNCHANGED Others10

\* p1, line 123 and line 137: the queue is empty, the machine is finished.
P1Done10 ==
    /\ pc10 = "while"
    /\ queue = <<>>
    /\ pc10' = "done"
    /\ UNCHANGED <<light, buttons, queue, visited, min_presses>>
    /\ UNCHANGED Others10

InitDay10 ==
    /\ Idle4 /\ Idle8 /\ Idle7 /\ Idle2 /\ IdleT /\ Idle1 /\ Idle10b
    /\ Idle7a /\ Idle2p /\ Idle02m /\ Idle05 /\ Idle1p /\ Idlemn /\ Idle05f
    /\ Idle03 /\ Idle4o
    /\ P1Start10

NextDay10 == P1Pop10 \/ P1Done10

SpecDay10 == InitDay10 /\ [][NextDay10]_vars

RECURSIVE PressAll10(_, _)
\* The pattern after pressing once each button of the index set S, from all off.
PressAll10(S, pattern) ==
    IF S = {} THEN pattern
    ELSE LET j == CHOOSE x \in S : TRUE
         IN  PressAll10(S \ {j}, press_button(pattern, buttons[j]))

\* The sets of buttons that, pressed once each, give the target.  (Pressing a
\* button twice changes nothing, so a shortest press sequence is such a set.)
Solutions10 ==
    {S \in SUBSET (1 .. Len(buttons)) :
        PressAll10(S, [k \in 1 .. NumLights |-> "."]) = light}

MinPresses10 ==
    CHOOSE m \in 0 .. Len(buttons) :
        /\ \E S \in Solutions10 : Cardinality(S) = m
        /\ \A S \in Solutions10 : Cardinality(S) >= m

\* C3: for every machine whose target is reachable, the value p1 records is
\* the minimum number of button presses that turns the all-off pattern into
\* the target, including targets that need zero presses.
C3_MinPresses ==
    (pc10 = "done" /\ Solutions10 # {}) => min_presses = <<MinPresses10>>

(***************************************************************************)
(* day7/main.py : branching path counter (solve_2)                         *)
(***************************************************************************)
GridH7 == 3
GridW7 == 3
MaxSplitters == 3

Cells7 == (0 .. GridH7 - 1) \X (0 .. GridW7 - 1)

\* dirs
dirs_d == <<1, 0>>
dirs_r == <<0, 1>>
dirs_l == <<0, -1>>

\* grid.get((y, x)): None for a key the grid does not hold.
Get7(y, x) == IF <<y, x>> \in DOMAIN grid7 THEN grid7[<<y, x>>] ELSE "None"

\* solve_2, lines 72-80: the grid built from the file, one 'S', splitters
\* '^' and '.' elsewhere.
ReadGrid7 ==
    /\ \E s \in Cells7 :
         \E split \in SubsetsUpTo(Cells7 \ {s}, MaxSplitters) :
           /\ grid7 = [c \in Cells7 |->
                          IF c = s THEN "S" ELSE IF c \in split THEN "^" ELSE "."]
           /\ start_pos = s
    /\ grid_len = GridH7 - 1
    /\ row_len = GridW7
    /\ unique_paths = 0
    /\ pc7 = "solve_2"

\* traverse(start_pos, None): a previous position is a pair, None is <<>>.
None7 == <<>>

RECURSIVE traverse2_by_prev(_, _)
\* A plausible slip: a beam does not branch back to the column it came from.
traverse2_by_prev(pos, prev_pos) ==
    LET y == pos[1]
        x == pos[2]
        ny == y + dirs_d[1]
        nx == x + dirs_d[2]
        next == Get7(ny, nx)
        back(c) == prev_pos # None7 /\ prev_pos[2] = c
    IN  IF y + dirs_d[1] > grid_len THEN 1
        ELSE IF next = "^"
        THEN (IF 0 <= nx + dirs_l[2] /\ nx + dirs_l[2] <= row_len
                 /\ ~back(nx + dirs_l[2])
              THEN traverse2_by_prev(<<ny, nx + dirs_l[2]>>, pos) ELSE 0)
             + (IF 0 <= nx + dirs_r[2] /\ nx + dirs_r[2] <= row_len
                   /\ ~back(nx + dirs_r[2])
                THEN traverse2_by_prev(<<ny, nx + dirs_r[2]>>, pos) ELSE 0)
        ELSE IF next = "."
        THEN traverse2_by_prev(<<ny, nx>>, pos)
        ELSE 0

RECURSIVE traverse2_left_only(_, _)
\* A plausible slip: the right branch of a splitter is never followed.
traverse2_left_only(pos, prev_pos) ==
    LET y == pos[1]
        x == pos[2]
        ny == y + dirs_d[1]
        nx == x + dirs_d[2]
        next == Get7(ny, nx)
    IN  IF y + dirs_d[1] > grid_len THEN 1
        ELSE IF next = "^"
        THEN (IF 0 <= nx + dirs_l[2] /\ nx + dirs_l[2] <= row_len
              THEN traverse2_left_only(<<ny, nx + dirs_l[2]>>, pos) ELSE 0)
        ELSE IF next = "."
        THEN traverse2_left_only(<<ny, nx>>, pos)
        ELSE 0

RECURSIVE traverse2(_, _)
\* solve_2.traverse, lines 83-104.  lru_cache only stores results.
traverse2(pos, prev_pos) ==
    LET y == pos[1]
        x == pos[2]
        ny == y + dirs_d[1]
        nx == x + dirs_d[2]
        next == Get7(ny, nx)
    IN  IF y + dirs_d[1] > grid_len THEN 1
        ELSE IF next = "^"
        THEN (IF 0 <= nx + dirs_l[2] /\ nx + dirs_l[2] <= row_len
              THEN traverse2(<<ny, nx + dirs_l[2]>>, pos) ELSE 0)
             + (IF 0 <= nx + dirs_r[2] /\ nx + dirs_r[2] <= row_len
                THEN traverse2(<<ny, nx + dirs_r[2]>>, pos) ELSE 0)
        ELSE IF next = "."
        THEN traverse2(<<ny, nx>>, pos)
        ELSE 0

\* solve_2, lines 106-108.
Solve2_7 ==
    /\ pc7 = "solve_2"
    /\ unique_paths' = traverse2(start_pos, None7)
    /\ pc7' = "done"
    /\ UNCHANGED <<grid7, start_pos, grid_len, row_len>>
    /\ UNCHANGED Others7

InitDay7 ==
    /\ Idle4 /\ Idle8 /\ Idle10 /\ Idle2 /\ IdleT /\ Idle1 /\ Idle10b
    /\ Idle7a /\ Idle2p /\ Idle02m /\ Idle05 /\ Idle1p /\ Idlemn /\ Idle05f
    /\ Idle03 /\ Idle4o
    /\ ReadGrid7

NextDay7 == Solve2_7

SpecDay7 == InitDay7 /\ [][NextDay7]_vars

\* The cell directly below pos holds a splitter.
SplitterBelow7(pos) == Get7(pos[1] + 1, pos[2]) = "^"

\* Every cell below pos, in its column and down to the last row, holds '.'.
StraightRun7(pos) ==
    \A y \in (pos[1] + 1) .. grid_len : Get7(y, pos[2]) = "."

\* The positions a splitter below pos sends the beam to.
LeftBranch7(pos) == <<pos[1] + 1, pos[2] - 1>>
RightBranch7(pos) == <<pos[1] + 1, pos[2] + 1>>

SplitRows7 == {c[1] : c \in {k \in DOMAIN grid7 : grid7[k] = "^"}}

\* Exactly one row holds splitters, it lies below the origin, and it has a
\* splitter in the origin's column.
OneSplitterRow7(r) ==
    /\ SplitRows7 = {r}
    /\ r > start_pos[1]
    /\ Get7(r, start_pos[2]) = "^"

\* The splitter under the origin is in the first column, or in the last
\* column with at least one row below it.
EdgeSplitter7(r) ==
    \/ start_pos[2] = 0
    \/ start_pos[2] = row_len - 1 /\ r < grid_len

\* C5 as stated: for every grid with exactly one splitter row, the splitter
\* directly below the origin's column, solve_2 returns exactly 2 whatever the
\* splitter's column, the first and the last column included.
C5_Original ==
    \A r \in 0 .. grid_len :
        (pc7 = "done" /\ OneSplitterRow7(r)) => unique_paths = 2

\* C5 amended: solve_2 returns exactly 2 unless the splitter is in the first
\* column, or in the last column with a row below it; in those cases it
\* returns less than 2.
C5_OneSplitterRow ==
    \A r \in 0 .. grid_len :
        (pc7 = "done" /\ OneSplitterRow7(r)) =>
            IF EdgeSplitter7(r) THEN unique_paths < 2 ELSE unique_paths = 2

\* C5 witness: solve_2 has returned 2 for a splitter in an inner column with a
\* row below it.
C5_Witness ==
    \E r \in 0 .. grid_len :
        /\ pc7 = "done"
        /\ OneSplitterRow7(r)
        /\ ~EdgeSplitter7(r)
        /\ r < grid_len
        /\ unique_paths = 2

(***************************************************************************)
(* day2/agent.py and day02/main.py : range / digit-pattern scanner         *)
(***************************************************************************)
MaxId == 1300
MaxSpan == 2
MaxListId == 12

RECURSIVE str(_)
\* str(n) for n >= 0: the decimal digits, most significant first.
str(n) == IF n < 10 THEN <<n>> ELSE Append(str(n \div 10), n % 10)

RECURSIVE lstrip0(_)
\* s.lstrip("0")
lstrip0(s) == IF s # <<>> /\ Head(s) = 0 THEN lstrip0(Tail(s)) ELSE s

RECURSIVE repeat(_, _)
\* sequence * count
repeat(sequence, count) ==
    IF count <= 0 THEN <<>> ELSE sequence \o repeat(sequence, count - 1)

RECURSIVE sum(_)
\* sum(invalid_ids)
sum(ids) == IF ids = <<>> THEN 0 ELSE Head(ids) + sum(Tail(ids))

\* A plausible slip: the second half sliced one character too far
\* (id_str[mid + 1:]).
is_invalid_part1_off(id) ==
    LET id_str == str(id)
        length == Len(id_str)
        mid == length \div 2
    IN  IF length < 2 THEN FALSE
        ELSE IF length % 2 # 0 THEN FALSE
        ELSE SubSeq(id_str, 1, mid) = SubSeq(id_str, mid + 2, length)

\* day2/agent.py is_invalid_part1
is_invalid_part1(id) ==
    LET id_str == str(id)
        length == Len(id_str)
        mid == length \div 2
    IN  IF length < 2 THEN FALSE
        ELSE IF length % 2 # 0 THEN FALSE
        ELSE SubSeq(id_str, 1, mid) = SubSeq(id_str, mid + 1, length)

\* A plausible slip: the range of candidate lengths stops one short
\* (range(1, length // 2) instead of range(1, length // 2 + 1)).
is_invalid_part2_short(id) ==
    LET id_str == str(id)
        length == Len(id_str)
    IN  IF length < 2 THEN FALSE
        ELSE \E seq_length \in 1 .. (length \div 2 - 1) :
                 /\ length % seq_length = 0
                 /\ length \div seq_length >= 2
                 /\ repeat(SubSeq(id_str, 1, seq_length), length \div seq_length)
                        = id_str

\* day2/agent.py is_invalid_part2
is_invalid_part2(id) ==
    LET id_str == str(id)
        length == Len(id_str)
    IN  IF length < 2 THEN FALSE
        ELSE \E seq_length \in 1 .. (length \div 2) :
                 /\ length % seq_length = 0
                 /\ length \div seq_length >= 2
                 /\ repeat(SubSeq(id_str, 1, seq_length), length \div seq_length)
                        = id_str

\* day02/main.py invalid_finder, the test of lines 17-24 for one num.
invalid_finder(num) ==
    LET str_num == lstrip0(str(num))
        midpoint == Len(str_num) \div 2
    IN  SubSeq(str_num, 1, midpoint) = SubSeq(str_num, midpoint + 1, Len(str_num))

\* day02/main.py pattern_finder, the test of lines 34-36 for one num:
\* re.fullmatch(r"(.+?)\1+$", s) matches iff s is a non-empty group followed
\* by one or more copies of it.
pattern_finder(num) ==
    LET str_num == lstrip0(str(num))
    IN  \E k \in 1 .. Len(str_num) : \E m \in 1 .. Len(str_num) :
            str_num = SubSeq(str_num, 1, k) \o repeat(SubSeq(str_num, 1, k), m)

\* The validator passed to find_invalid_ids_in_range.
Validates(v, id) ==
    IF v = "part1" THEN is_invalid_part1(id) ELSE is_invalid_part2(id)

\* The day02 finder that plays the same part.
Finds02(v, num) ==
    IF v = "part1" THEN invalid_finder(num) ELSE pattern_finder(num)

\* A plausible slip: the running total overwritten instead of increased.
add_to_total_overwrite(total, ids) == sum(ids)

\* calculate_invalid_sum, line 211: total_sum += sum(invalid_ids)
add_to_total(total, ids) == total + sum(ids)

\* test_day2.py, lines 150-154.
ExampleRanges == <<<<11, 22>>, <<95, 115>>, <<998, 1012>>>>

\* Six-digit ids around the patterns of the tests (123123, 222222, 446446,
\* 565656) and their neighbours.
WideIds == {100100, 111111, 121212, 123123, 123124, 123321, 222222, 446446,
            565656, 565665}

\* The range lists the scan is run on.
RangeLists2 ==
    {<<>>, ExampleRanges}
    \cup {<<<<s, s + w>>>> : s \in 0 .. MaxId, w \in 0 .. MaxSpan}
    \cup {<<<<n, n>>>> : n \in WideIds}
    \cup {<<r1, r2>> :
             r1 \in {r \in (0 .. MaxListId) \X (0 .. MaxListId) : r[1] <= r[2]},
             r2 \in {r \in (0 .. MaxListId) \X (0 .. MaxListId) : r[1] <= r[2]}}

\* calculate_invalid_sum, lines 208-209, and the first call of
\* find_invalid_ids_in_range.
Start2 ==
    /\ ranges \in RangeLists2
    /\ validator \in {"part1", "part2"}
    /\ ri = 1
    /\ product_id = 0
    /\ invalid_ids = <<>>
    /\ invalid_ids02 = <<>>
    /\ total_sum = 0
    /\ pc2 = "call"

\* find_invalid_ids_in_range, lines 183-184: the call for range ri.
FindCall2 ==
    /\ pc2 = "call"
    /\ ri <= Len(ranges)
    /\ product_id' = ranges[ri][1]
    /\ invalid_ids' = <<>>
    /\ invalid_ids02' = <<>>
    /\ pc2' = "scan"
    /\ UNCHANGED <<ranges, validator, ri, total_sum>>
    /\ UNCHANGED Others2

\* find_invalid_ids_in_range, lines 184-186: one iteration; the day02 finder
\* of the same part tests the same number.
FindStep2 ==
    /\ pc2 = "scan"
    /\ product_id <= ranges[ri][2]
    /\ invalid_ids' = IF Validates(validator, product_id)
                      THEN Append(invalid_ids, product_id) ELSE invalid_ids
    /\ invalid_ids02' = IF Finds02(validator, product_id)
                        THEN Append(invalid_ids02, product_id) ELSE invalid_ids02
    /\ product_id' = product_id + 1
    /\ UNCHANGED <<ranges, validator, ri, total_sum, pc2>>
    /\ UNCHANGED Others2

\* find_invalid_ids_in_range, line 187, and calculate_invalid_sum, line 211.
FindReturn2 ==
    /\ pc2 = "scan"
    /\ product_id > ranges[ri][2]
    /\ total_sum' = add_to_total(total_sum, invalid_ids)
    /\ ri' = ri + 1
    /\ pc2' = "call"
    /\ UNCHANGED <<ranges, validator, product_id, invalid_ids, invalid_ids02>>
    /\ UNCHANGED Others2

\* calculate_invalid_sum, line 212.
SumReturn2 ==
    /\ pc2 = "call"
    /\ ri > Len(ranges)
    /\ pc2' = "done"
    /\ UNCHANGED <<ranges, validator, ri, product_id, invalid_ids,
                   invalid_ids02, total_sum>>
    /\ UNCHANGED Others2

InitDay2 ==
    /\ Idle4 /\ Idle8 /\ Idle10 /\ Idle7 /\ IdleT /\ Idle1 /\ Idle10b
    /\ Idle7a /\ Idle2p /\ Idle02m /\ Idle05 /\ Idle1p /\ Idlemn /\ Idle05f
    /\ Idle03 /\ Idle4o
    /\ Start2

NextDay2 == FindCall2 \/ FindStep2 \/ FindReturn2 \/ SumReturn2

SpecDay2 == InitDay2 /\ [][NextDay2]_vars

\* The number of decimal digits of n >= 1, from the powers of ten.
DecLen(n) == CHOOSE L \in 1 .. 8 : 10 ^ (L - 1) <= n /\ n < 10 ^ L

\* The i-th decimal digit of n >= 1, counted from the left, from 1.
DecDigit(n, i) == (n \div (10 ^ (DecLen(n) - i))) % 10

\* The decimal string of n is its first d characters repeated: d divides the
\* digit count and every digit equals the one d places before it.
RepeatsPrefix(n, d) ==
    /\ DecLen(n) % d = 0
    /\ \A i \in (d + 1) .. DecLen(n) : DecDigit(n, i) = DecDigit(n, i - d)

\* General repetition, as the specification states it.
GeneralRepetition(n) == \E d \in 1 .. (DecLen(n) - 1) : RepeatsPrefix(n, d)

\* Exact double, for n of even digit count: the first half of the digits
\* equals the last half.
ExactDouble(n) ==
    \A i \in 1 .. (DecLen(n) \div 2) :
        DecDigit(n, i) = DecDigit(n, i + DecLen(n) \div 2)

\* The elements of a Python list.
Elems(list) == {list[i] : i \in 1 .. Len(list)}

\* The positive ids the current call of find_invalid_ids_in_range has tested.
Scanned2 == {n \in ranges[ri][1] .. (product_id - 1) : n >= 1}

\* C6: for every positive integer n, is_invalid_part2(n) is true iff some
\* divisor d of the digit count, d < digit count, makes the decimal string of
\* n its first d characters repeated; day02 pattern_finder selects exactly
\* the same integers from any range of positive integers.
C6_GeneralRepetition ==
    (pc2 = "scan" /\ validator = "part2") =>
        /\ \A n \in Scanned2 : (n \in Elems(invalid_ids)) <=> GeneralRepetition(n)
        /\ \A n \in Scanned2 : is_invalid_part2(n) <=> GeneralRepetition(n)
        /\ ranges[ri][1] >= 1 => invalid_ids02 = invalid_ids

\* C6 witness: the scan has selected 121212 (its first 2 characters three
\* times), by both programs.
C6_Witness ==
    /\ pc2 = "scan"
    /\ validator = "part2"
    /\ product_id > 121212
    /\ invalid_ids = <<121212>>
    /\ invalid_ids02 = <<121212>>

\* C7: for every positive integer n of even digit count L, is_invalid_part1(n)
\* is true iff the first L/2 digits equal the last L/2 digits; day02
\* invalid_finder selects exactly the same integers from any range of positive
\* integers.
C7_ExactDouble ==
    (pc2 = "scan" /\ validator = "part1") =>
        /\ \A n \in Scanned2 :
               DecLen(n) % 2 = 0 =>
                   /\ (n \in Elems(invalid_ids)) <=> ExactDouble(n)
                   /\ is_invalid_part1(n) <=> ExactDouble(n)
        /\ ranges[ri][1] >= 1 => invalid_ids02 = invalid_ids

\* C7 witness: scanning 1010..1012 selected 1010 and rejected 1011.
C7_Witness ==
    /\ pc2 = "scan"
    /\ validator = "part1"
    /\ ranges[ri] = <<1010, 1012>>
    /\ product_id = 1012
    /\ invalid_ids = <<1010>>
    /\ invalid_ids02 = <<1010>>

RECURSIVE SumSet(_)
\* The sum of a finite set of integers.
SumSet(S) ==
    IF S = {} THEN 0
    ELSE LET x == CHOOSE y \in S : TRUE IN x + SumSet(S \ {x})

\* The integers of the inclusive range r for which the validator is true.
InvalidIn(r) == {n \in r[1] .. r[2] : Validates(validator, n)}

RECURSIVE SumOverRanges(_)
\* The sum, over the ranges of a list, of the invalid ids of each range.
SumOverRanges(list) ==
    IF list = <<>> THEN 0
    ELSE SumSet(InvalidIn(Head(list))) + SumOverRanges(Tail(list))

\* C8: calculate_invalid_sum returns the sum, over the ranges of the list, of
\* every integer of [start, end] for which the validator is true;
\* find_invalid_ids_in_range returns those integers in ascending order; the
\* empty list gives 0; ranges (11,22),(95,115),(998,1012) under exact double
\* give 11, 22, 99, 1010 and the sum 1142.
C8_InvalidSum ==
    /\ pc2 = "done" => total_sum = SumOverRanges(ranges)
    /\ (pc2 = "done" /\ ranges = <<>>) => total_sum = 0
    /\ (pc2 = "call" /\ ri > 1) =>
           /\ Elems(invalid_ids) = InvalidIn(ranges[ri - 1])
           /\ \A i, j \in 1 .. Len(invalid_ids) :
                  i < j => invalid_ids[i] < invalid_ids[j]
    /\ (ranges = ExampleRanges /\ validator = "part1" /\ pc2 = "call") =>
           /\ ri = 2 => invalid_ids = <<11, 22>>
           /\ ri = 3 => invalid_ids = <<99>>
           /\ ri = 4 => invalid_ids = <<1010>>
    /\ (ranges = ExampleRanges /\ validator = "part1" /\ pc2 = "done") =>
           total_sum = 1142

\* C8 witness: the example ranges have been summed under exact double.
C8_Witness ==
    /\ pc2 = "done"
    /\ ranges = ExampleRanges
    /\ validator = "part1"
    /\ total_sum = 1142

(***************************************************************************)
(* day1/agent.py and day1/main.py : safe dial                              *)
(***************************************************************************)
MaxTurnDistance == 250
MaxDistance == 60
MaxRotations == 2

\* day1/main.py nums = range(0, 100); the dial of agent.py (% 100).
DialSize == 100

\* day1/main.py calculate_turn_idx, lines 19-27: one pass of the for loop.
turn_idx_click(current_value, dir) ==
    IF dir = "L"
    THEN (IF current_value - 1 < 0 THEN DialSize - 1 ELSE current_value - 1)
    ELSE (IF current_value + 1 > DialSize - 1 THEN 0 ELSE current_value + 1)

RECURSIVE turn_idx_loop(_, _, _)
\* day1/main.py calculate_turn_idx: `clicks` consecutive passes of the for
\* loop, run as the first half of the passes followed by the rest.
turn_idx_loop(current_value, dir, clicks) ==
    IF clicks = 0 THEN current_value
    ELSE IF clicks = 1 THEN turn_idx_click(current_value, dir)
    ELSE LET half == clicks \div 2
         IN  CHOOSE r \in {turn_idx_loop(mid, dir, clicks - half) :
                              mid \in {turn_idx_loop(current_value, dir, half)}} :
                 TRUE

calculate_turn_idx(current_value, dir, dist) ==
    turn_idx_loop(current_value, dir, dist)

\* day1/main.py calculate_turn_zero_count, lines 36-50: one pass of the for
\* loop on <<current_value, _zero_count>>.
turn_zero_click(current_value, count, dir) ==
    IF dir = "L"
    THEN LET v == current_value - 1
         IN  <<IF v < 0 THEN DialSize - 1 ELSE v,
               IF v = 0 THEN count + 1 ELSE count>>
    ELSE LET v == IF current_value + 1 > DialSize - 1 THEN 0
                  ELSE current_value + 1
         IN  <<v, IF v = 0 THEN count + 1 ELSE count>>

RECURSIVE turn_zero_loop(_, _, _, _)
\* day1/main.py calculate_turn_zero_count: `clicks` consecutive passes of the
\* for loop, run as the first half of the passes followed by the rest.
turn_zero_loop(current_value, count, dir, clicks) ==
    IF clicks = 0 THEN <<current_value, count>>
    ELSE IF clicks = 1 THEN turn_zero_click(current_value, count, dir)
    ELSE LET half == clicks \div 2
         IN  CHOOSE r \in {turn_zero_loop(mid[1], mid[2], dir, clicks - half) :
                              mid \in {turn_zero_loop(current_value, count, dir,
                                                      half)}} :
                 TRUE

calculate_turn_zero_count(current_value, dir, dist) ==
    turn_zero_loop(current_value, 0, dir, dist)

\* A plausible slip: the LEFT case forgets the first arrival at 0.
calculate_zero_crossings_left_off(start, dir, dist, during) ==
    IF dist = 0 THEN 0
    ELSE IF ~during
    THEN (IF (start + (IF dir = "R" THEN dist ELSE -dist)) % DialSize = 0
          THEN 1 ELSE 0)
    ELSE IF dir = "R"
    THEN (start + dist) \div DialSize - start \div DialSize
    ELSE IF start = 0 THEN dist \div DialSize
    ELSE IF dist < start THEN 0
    ELSE (dist - start) \div DialSize

\* day1/agent.py calculate_zero_crossings
calculate_zero_crossings(start, dir, dist, during) ==
    IF dist = 0 THEN 0
    ELSE IF ~during
    THEN (IF (start + (IF dir = "R" THEN dist ELSE -dist)) % DialSize = 0
          THEN 1 ELSE 0)
    ELSE IF dir = "R"
    THEN (start + dist) \div DialSize - start \div DialSize
    ELSE IF start = 0 THEN dist \div DialSize
    ELSE IF dist < start THEN 0
    ELSE 1 + (dist - start) \div DialSize

\* A plausible slip: the LEFT branch subtracts the wrong way round.
simulate_rotation_swapped(start, dir, dist, during) ==
    <<IF dir = "R" THEN (start + dist) % DialSize ELSE (dist - start) % DialSize,
      calculate_zero_crossings(start, dir, dist, during)>>

\* day1/agent.py simulate_rotation: <<final_position, zero_crossings>>.
simulate_rotation(start, dir, dist, during) ==
    <<IF dir = "R" THEN (start + dist) % DialSize ELSE (start - dist) % DialSize,
      calculate_zero_crossings(start, dir, dist, during)>>

\* What day1/main.py obtains for one rotation: main_2 adds the count of
\* calculate_turn_zero_count, main_1 adds 1 when calculate_turn_idx ends at 0.
\* <<current value, count added>>
main_turn(current_value, dir, dist, during) ==
    IF during THEN calculate_turn_zero_count(current_value, dir, dist)
    ELSE LET c == calculate_turn_idx(current_value, dir, dist)
         IN  <<c, IF c = 0 THEN 1 ELSE 0>>

\* One rotation, from any dial position.
StartTurn ==
    /\ start_position \in 0 .. DialSize - 1
    /\ direction \in {"L", "R"}
    /\ distance \in 0 .. MaxTurnDistance
    /\ count_during \in BOOLEAN
    /\ result = <<>>
    /\ main_result = <<>>
    /\ pcT = "call"

\* simulate_rotation (agent.py) and the turn of main.py, on the same rotation.
SimulateTurn ==
    /\ pcT = "call"
    /\ result' = simulate_rotation(start_position, direction, distance,
                                   count_during)
    /\ main_result' = main_turn(start_position, direction, distance,
                                count_during)
    /\ pcT' = "done"
    /\ UNCHANGED <<start_position, direction, distance, count_during>>
    /\ UNCHANGED OthersT

InitDay1Turn ==
    /\ Idle4 /\ Idle8 /\ Idle10 /\ Idle7 /\ Idle2 /\ Idle1 /\ Idle10b
    /\ Idle7a /\ Idle2p /\ Idle02m /\ Idle05 /\ Idle1p /\ Idlemn /\ Idle05f
    /\ Idle03 /\ Idle4o
    /\ StartTurn

NextDay1Turn == SimulateTurn

SpecDay1Turn == InitDay1Turn /\ [][NextDay1Turn]_vars

\* calculate_password, lines 256-258; main_1, lines 56-57; main_2, lines 69-70.
StartPassword ==
    /\ method \in {"STANDARD", "CLICK_METHOD"}
    /\ current_position = 50
    /\ total_zero_crossings = 0
    /\ n1 = 0
    /\ curr_1 = 50
    /\ count_1 = 0
    /\ curr_2 = 50
    /\ zero_count_2 = 0
    /\ net_distance = 0
    /\ pc1 = "loop"

\* One iteration of the loop of calculate_password (lines 260-263), of main_1
\* (lines 58-63) and of main_2 (lines 71-75), on the same rotation.
\* net_distance is the sum of the right distances minus the sum of the left
\* distances of the rotations made so far.
Rotate1 ==
    /\ pc1 = "loop"
    /\ n1 < MaxRotations
    /\ \E dir \in {"L", "R"}, dist \in 0 .. MaxDistance :
         LET res == simulate_rotation(current_position, dir, dist,
                                      method = "CLICK_METHOD")
             c1 == calculate_turn_idx(curr_1, dir, dist)
             r2 == calculate_turn_zero_count(curr_2, dir, dist)
         IN  /\ total_zero_crossings' = total_zero_crossings + res[2]
             /\ current_position' = res[1]
             /\ curr_1' = c1
             /\ count_1' = IF c1 = 0 THEN count_1 + 1 ELSE count_1
             /\ curr_2' = r2[1]
             /\ zero_count_2' = zero_count_2 + r2[2]
             /\ net_distance' = IF dir = "R" THEN net_distance + dist
                                ELSE net_distance - dist
    /\ n1' = n1 + 1
    /\ UNCHANGED <<method, pc1>>
    /\ UNCHANGED Others1

\* calculate_password, line 265; main_1, line 64; main_2, line 76.
Return1 ==
    /\ pc1 = "loop"
    /\ pc1' = "done"
    /\ UNCHANGED <<method, current_position, total_zero_crossings, n1, curr_1,
                   count_1, curr_2, zero_count_2, net_distance>>
    /\ UNCHANGED Others1

InitDay1 ==
    /\ Idle4 /\ Idle8 /\ Idle10 /\ Idle7 /\ Idle2 /\ IdleT /\ Idle10b
    /\ Idle7a /\ Idle2p /\ Idle02m /\ Idle05 /\ Idle1p /\ Idlemn /\ Idle05f
    /\ Idle03 /\ Idle4o
    /\ StartPassword

NextDay1 == Rotate1 \/ Return1

SpecDay1 == InitDay1 /\ [][NextDay1]_vars

\* The clicks k of the rotation after which the dial points at 0.
ZeroClicks(start, dir, dist) ==
    {k \in 1 .. dist :
        (IF dir = "R" THEN start + k ELSE start - k) % DialSize = 0}

C10_StandardMethod ==
    (pc1 = "done" /\ method = "STANDARD") => total_zero_crossings = count_1

(***************************************************************************)
(* day10/main.py : constraint system handed to the optimizer (p2)          *)
(***************************************************************************)
MaxSlots == 2
MaxVoltage == 1
MaxButtonsP2 == 3

RECURSIVE ButtonRank(_)
\* A button's index list read as a binary number.
ButtonRank(b) ==
    IF b = {} THEN 0
    ELSE LET x == CHOOSE y \in b : TRUE IN 2 ^ x + ButtonRank(b \ {x})

\* read_input, lines 19-26: the buttons of one line (each a non-empty index
\* list) and its voltage list.  The lines taken are those that list their
\* buttons in ascending rank; a button may occur more than once.
MachinesP2 ==
    (UNION {{bl \in [1 .. n -> SUBSET (0 .. MaxSlots - 1) \ {{}}] :
                \A j \in 1 .. n - 1 : ButtonRank(bl[j]) <= ButtonRank(bl[j + 1])} :
                n \in 0 .. MaxButtonsP2})
        \X (UNION {[1 .. k -> 0 .. MaxVoltage] : k \in 0 .. MaxSlots})

RECURSIVE SumOver(_, _)
\* Sum(...) over the variables named by S, under the assignment a.
SumOver(a, S) ==
    IF S = {} THEN 0
    ELSE LET x == CHOOSE y \in S : TRUE IN a[x] + SumOver(a, S \ {x})

\* A plausible slip: the voltage slots counted from 1.
ints_for_i_off(btns, i) == {bidx \in 1 .. Len(btns) : (i + 1) \in btns[bidx]}

\* p2, lines 96-99: the variables of the buttons whose index list contains i.
ints_for_i(btns, i) == {bidx \in 1 .. Len(btns) : i \in btns[bidx]}

\* An assignment meets every constraint added to opt (lines 93-94, 100).
Satisfies(a, nn, eqs) ==
    /\ \A k \in 1 .. Len(nn) : a[nn[k]] >= 0
    /\ \A k \in 1 .. Len(eqs) : SumOver(a, eqs[k][1]) = eqs[k][2]

\* The values the optimizer has to look at: a variable that occurs in an
\* equality is at most its amount, any other is 0 at the optimum; below 0 only
\* the bounds i >= 0 exclude.
SolverRange == -1 .. MaxVoltage

\* opt.check() with the objective of line 103: the satisfying assignments of
\* least total.
Optimal(vs, nn, eqs) ==
    LET sat == {a \in [1 .. Len(vs) -> SolverRange] : Satisfies(a, nn, eqs)}
        totals == {SumOver(a, 1 .. Len(vs)) : a \in sat}
    IN  {a \in sat : \A x \in totals : SumOver(a, 1 .. Len(vs)) <= x}

\* p2 called with the steps of a one-line file; lines 83-85.
P2Start ==
    /\ \E mach \in MachinesP2 : steps = <<mach>>
    /\ si = 0
    /\ ints = <<>>
    /\ nonneg = <<>>
    /\ equalities = <<>>
    /\ model_m = <<>>
    /\ min_presses_p2 = <<>>
    /\ p2_res = 0
    /\ pc10b = "loop"

\* p2, lines 85-100: the variables and the constraints of one machine.
P2Build ==
    /\ pc10b = "loop"
    /\ si < Len(steps)
    /\ LET btns == steps[si + 1][1]
           target_voltage == steps[si + 1][2]
       IN  /\ ints' = [b \in 1 .. Len(btns) |-> b]
           /\ nonneg' = [b \in 1 .. Len(btns) |-> b]
           /\ equalities' = [k \in 1 .. Len(target_voltage) |->
                                <<ints_for_i(btns, k - 1), target_voltage[k]>>]
    /\ pc10b' = "minimize"
    /\ UNCHANGED <<steps, si, model_m, min_presses_p2, p2_res>>
    /\ UNCHANGED Others10b

\* p2, lines 103-106.  Sum of an empty list is the Python int 0, which
\* minimize cannot take (AttributeError); an unsatisfiable system has no
\* model, and opt.model() raises.
P2Solve ==
    /\ pc10b = "minimize"
    /\ IF ints = <<>>
       THEN pc10b' = "AttributeError" /\ UNCHANGED model_m
       ELSE LET best == Optimal(ints, nonneg, equalities)
            IN  IF best = {}
                THEN pc10b' = "Z3Exception" /\ UNCHANGED model_m
                ELSE model_m' \in best /\ pc10b' = "extract"
    /\ UNCHANGED <<steps, si, ints, nonneg, equalities, min_presses_p2, p2_res>>
    /\ UNCHANGED Others10b

\* p2, lines 107-112: the values of the model, summed.
P2Extract ==
    /\ pc10b = "extract"
    /\ min_presses_p2' =
           Append(min_presses_p2, sum([k \in 1 .. Len(ints) |-> model_m[ints[k]]]))
    /\ si' = si + 1
    /\ pc10b' = "loop"
    /\ UNCHANGED <<steps, ints, nonneg, equalities, model_m, p2_res>>
    /\ UNCHANGED Others10b

\* p2, line 113.
P2Return ==
    /\ pc10b = "loop"
    /\ si >= Len(steps)
    /\ p2_res' = sum(min_presses_p2)
    /\ pc10b' = "done"
    /\ UNCHANGED <<steps, si, ints, nonneg, equalities, model_m, min_presses_p2>>
    /\ UNCHANGED Others10b

InitDay10P2 ==
    /\ Idle4 /\ Idle8 /\ Idle10 /\ Idle7 /\ Idle2 /\ IdleT /\ Idle1
    /\ Idle7a /\ Idle2p /\ Idle02m /\ Idle05 /\ Idle1p /\ Idlemn /\ Idle05f
    /\ Idle03 /\ Idle4o
    /\ P2Start

NextDay10P2 == P2Build \/ P2Solve \/ P2Extract \/ P2Return

SpecDay10P2 == InitDay10P2 /\ [][NextDay10P2]_vars

\* The press counts (one integer >= 0 per button) under which every voltage
\* slot i receives exactly target[i] from the buttons that list i.
PressCounts(btns, target) ==
    {a \in [1 .. Len(btns) -> 0 .. MaxVoltage] :
        \A i \in 0 .. Len(target) - 1 :
            SumOver(a, {b \in 1 .. Len(btns) : i \in btns[b]}) = target[i + 1]}

\* The total number of presses of an assignment.
TotalPresses(a) == SumOver(a, DOMAIN a)

GridH1 == 4
GridW1 == 3
MaxSplitters1 == 4

Cells1 == (0 .. GridH1 - 1) \X (0 .. GridW1 - 1)

\* grid.get((y, x)): None for a key the grid does not hold.
Get1(y, x) == IF <<y, x>> \in DOMAIN grid1 THEN grid1[<<y, x>>] ELSE "None"

\* solve_1, lines 17-35: the grid built from the file ('S' in the first
\* line, splitters '^' and '.' elsewhere), the empty cache and the counter.
ReadGrid1 ==
    /\ \E s \in {c \in Cells1 : c[1] = 0} :
         \E split \in SubsetsUpTo(Cells1 \ {s}, MaxSplitters1) :
           /\ grid1 = [c \in Cells1 |->
                          IF c = s THEN "S" ELSE IF c \in split THEN "^" ELSE "."]
           /\ start_pos1 = s
    /\ grid_len1 = GridH1 - 1
    /\ row_len1 = GridW1
    /\ cache = {}
    /\ split_count = 0
    /\ expanded = <<>>
    /\ pc7a = "solve_1"

RECURSIVE traverse1_nocache(_, _)
\* A plausible slip: the cache is filled but never consulted.
traverse1_nocache(pos, st) ==
    LET st1 == [st EXCEPT !.cache = @ \cup {pos}, !.expanded = Append(@, pos)]
        y == pos[1]
        x == pos[2]
        ny == y + dirs_d[1]
        nx == x + dirs_d[2]
        next == Get1(ny, nx)
    IN  IF y + dirs_d[1] > grid_len1 THEN st1
        ELSE IF next = "^"
        THEN LET st2 == [st1 EXCEPT !.split_count = @ + 1]
                 st3 == IF 0 <= nx + dirs_l[2] /\ nx + dirs_l[2] <= row_len1
                        THEN traverse1_nocache(<<ny, nx + dirs_l[2]>>, st2)
                        ELSE st2
             IN  IF 0 <= nx + dirs_r[2] /\ nx + dirs_r[2] <= row_len1
                 THEN traverse1_nocache(<<ny, nx + dirs_r[2]>>, st3)
                 ELSE st3
        ELSE IF next = "."
        THEN traverse1_nocache(<<ny, nx>>, st1)
        ELSE st1

RECURSIVE traverse1(_, _)
\* solve_1.traverse, lines 37-59.  st holds cache and totals["split_count"];
\* st.expanded lists the positions in the order of cache.add.
traverse1(pos, st) ==
    IF pos \in st.cache THEN st
    ELSE
    LET st1 == [st EXCEPT !.cache = @ \cup {pos}, !.expanded = Append(@, pos)]
        y == pos[1]
        x == pos[2]
        ny == y + dirs_d[1]
        nx == x + dirs_d[2]
        next == Get1(ny, nx)
    IN  IF y + dirs_d[1] > grid_len1 THEN st1
        ELSE IF next = "^"
        THEN LET st2 == [st1 EXCEPT !.split_count = @ + 1]
                 st3 == IF 0 <= nx + dirs_l[2] /\ nx + dirs_l[2] <= row_len1
                        THEN traverse1(<<ny, nx + dirs_l[2]>>, st2)
                        ELSE st2
             IN  IF 0 <= nx + dirs_r[2] /\ nx + dirs_r[2] <= row_len1
                 THEN traverse1(<<ny, nx + dirs_r[2]>>, st3)
                 ELSE st3
        ELSE IF next = "."
        THEN traverse1(<<ny, nx>>, st1)
        ELSE st1

\* solve_1, lines 61-62.
Solve1 ==
    /\ pc7a = "solve_1"
    /\ LET st == traverse1(start_pos1,
                           [cache |-> cache, split_count |-> split_count,
                            expanded |-> expanded])
       IN  /\ cache' = st.cache
           /\ split_count' = st.split_count
           /\ expanded' = st.expanded
    /\ pc7a' = "done"
    /\ UNCHANGED <<grid1, start_pos1, grid_len1, row_len1>>
    /\ UNCHANGED Others7a

InitDay7P1 ==
    /\ Idle4 /\ Idle8 /\ Idle10 /\ Idle7 /\ Idle2 /\ IdleT /\ Idle1
    /\ Idle10b /\ Idle2p /\ Idle02m /\ Idle05 /\ Idle1p /\ Idlemn /\ Idle05f
    /\ Idle03 /\ Idle4o
    /\ ReadGrid1

NextDay7P1 == Solve1

SpecDay7P1 == InitDay7P1 /\ [][NextDay7P1]_vars

\* The cells a beam at cell p moves to: straight down through '.', and to
\* the cells left and right of a splitter below p (a beam that would leave
\* the grid sideways is gone).
BeamMoves1(p) ==
    LET below == <<p[1] + 1, p[2]>>
    IN  IF below \notin DOMAIN grid1 THEN {}
        ELSE IF grid1[below] = "."
        THEN {below}
        ELSE IF grid1[below] = "^"
        THEN {<<below[1], below[2] - 1>>, <<below[1], below[2] + 1>>}
                 \cap DOMAIN grid1
        ELSE {}

RECURSIVE BeamCells1(_)
\* Every cell some beam started at the origin passes.
BeamCells1(S) ==
    LET more == S \cup UNION {BeamMoves1(p) : p \in S}
    IN  IF more = S THEN S ELSE BeamCells1(more)

\* The splitter cells that a beam meets: a beam is in the cell above.
SplittersMet1 ==
    {s \in DOMAIN grid1 :
        grid1[s] = "^" /\ <<s[1] - 1, s[2]>> \in BeamCells1({start_pos1})}

\* C14: solve_1 returns the number of distinct splitter cells that some beam
\* started at the origin encounters; each reachable position is expanded at
\* most once, so no splitter is counted twice when several beams reach it.
C14_DistinctSplitters ==
    pc7a = "done" =>
        /\ split_count = Cardinality(SplittersMet1)
        /\ \A p \in BeamCells1({start_pos1}) :
               Cardinality({k \in 1 .. Len(expanded) : expanded[k] = p}) = 1
        /\ \A j, k \in 1 .. Len(expanded) : expanded[j] = expanded[k] => j = k

\* C14 witness: two beams arrive above the same splitter (one from the left,
\* one from the right), and it is met.
C14_Witness ==
    /\ pc7a = "done"
    /\ \E s \in SplittersMet1 :
           /\ <<s[1] - 1, s[2] - 1>> \in SplittersMet1
           /\ <<s[1] - 1, s[2] + 1>> \in SplittersMet1
    /\ split_count >= 4

(***************************************************************************)
(* day2/agent.py : parse_input                                             *)
(***************************************************************************)
MaxTokenLen == 4
MaxItems == 2

\* Text is a sequence of characters.  The characters of the inputs taken:
\* two digits, the dash, a letter and the blank.
Digits == {"0", "1", "2", "3", "4", "5", "6", "7", "8", "9"}
Alphabet == {"0", "1", "-", "x", " "}

\* The items between the commas of the cleaned text.
Tokens == UNION {[1 .. n -> Alphabet] : n \in 0 .. MaxTokenLen}

RECURSIVE lstrip(_)
lstrip(s) == IF s # <<>> /\ Head(s) = " " THEN lstrip(Tail(s)) ELSE s

RECURSIVE rstrip(_)
rstrip(s) ==
    IF s # <<>> /\ s[Len(s)] = " " THEN rstrip(SubSeq(s, 1, Len(s) - 1)) ELSE s

\* s.strip()
strip(s) == rstrip(lstrip(s))

RECURSIVE split(_, _)
\* s.split(sep) for a one-character sep: the pieces between the separators.
split(s, sep) ==
    IF \A k \in 1 .. Len(s) : s[k] # sep THEN <<s>>
    ELSE LET k == CHOOSE j \in 1 .. Len(s) :
                      s[j] = sep /\ \A h \in 1 .. j - 1 : s[h] # sep
         IN  <<SubSeq(s, 1, k - 1)>> \o split(SubSeq(s, k + 1, Len(s)), sep)

\* int(s) succeeds on a piece without dash: blanks around the digits are
\* allowed, at least one digit is needed.
int_ok(s) ==
    LET t == strip(s)
    IN  t # <<>> /\ \A k \in 1 .. Len(t) : t[k] \in Digits

DigitValue(c) ==
    CASE c = "0" -> 0 [] c = "1" -> 1 [] c = "2" -> 2 [] c = "3" -> 3
      [] c = "4" -> 4 [] c = "5" -> 5 [] c = "6" -> 6 [] c = "7" -> 7
      [] c = "8" -> 8 [] c = "9" -> 9

RECURSIVE int_digits(_)
int_digits(t) ==
    IF t = <<>> THEN 0
    ELSE 10 * int_digits(SubSeq(t, 1, Len(t) - 1)) + DigitValue(t[Len(t)])

\* int(s), where int_ok(s)
int(s) == int_digits(strip(s))

\* A plausible slip: the order test is left out.
parse_item_unordered(item) ==
    LET rs == strip(item)
        parts == split(rs, "-")
    IN  IF rs = <<>> THEN [kind |-> "skip"]
        ELSE IF Len(parts) # 2
        THEN [kind |-> "ValueError", msg |-> "Invalid range format", token |-> rs]
        ELSE IF ~int_ok(strip(parts[1]))
        THEN [kind |-> "ValueError", msg |-> "invalid literal for int()",
              token |-> strip(parts[1])]
        ELSE IF ~int_ok(strip(parts[2]))
        THEN [kind |-> "ValueError", msg |-> "invalid literal for int()",
              token |-> strip(parts[2])]
        ELSE LET start == int(strip(parts[1]))
                 end == int(strip(parts[2]))
             IN  IF start <= 0 \/ end <= 0
                 THEN [kind |-> "ValueError",
                       msg |-> "Range values must be positive", token |-> rs]
                 ELSE [kind |-> "range", start |-> start, end |-> end]

\* parse_input, lines 45-63: the body of the loop for one item.
parse_item(item) ==
    LET rs == strip(item)
        parts == split(rs, "-")
    IN  IF rs = <<>> THEN [kind |-> "skip"]
        ELSE IF Len(parts) # 2
        THEN [kind |-> "ValueError", msg |-> "Invalid range format", token |-> rs]
        ELSE IF ~int_ok(strip(parts[1]))
        THEN [kind |-> "ValueError", msg |-> "invalid literal for int()",
              token |-> strip(parts[1])]
        ELSE IF ~int_ok(strip(parts[2]))
        THEN [kind |-> "ValueError", msg |-> "invalid literal for int()",
              token |-> strip(parts[2])]
        ELSE LET start == int(strip(parts[1]))
                 end == int(strip(parts[2]))
             IN  IF start <= 0 \/ end <= 0
                 THEN [kind |-> "ValueError",
                       msg |-> "Range values must be positive", token |-> rs]
                 ELSE IF start > end
                 THEN [kind |-> "ValueError",
                       msg |-> "Range start must be <= end", token |-> rs]
                 ELSE [kind |-> "range", start |-> start, end |-> end]

\* parse_input, lines 38-43: the text is cleaned and split; items follow.
ParseStart ==
    /\ range_str = <<>>
    /\ parsed = <<>>
    /\ n_items = 0
    /\ error = <<>>
    /\ returned = <<"None">>
    /\ pc2p = "loop"

\* parse_input, lines 44-63: one pass of the loop, on the next item of the
\* text.
ParseItem ==
    /\ pc2p = "loop"
    /\ n_items < MaxItems
    /\ \E item \in Tokens :
         LET r == parse_item(item)
         IN  /\ range_str' = item
             /\ IF r.kind = "ValueError"
                THEN /\ error' = <<r.msg, r.token>>
                     /\ pc2p' = "ValueError"
                     /\ UNCHANGED parsed
                ELSE /\ parsed' = IF r.kind = "range"
                                  THEN Append(parsed, <<r.start, r.end>>)
                                  ELSE parsed
                     /\ UNCHANGED <<error, pc2p>>
    /\ n_items' = n_items + 1
    /\ UNCHANGED returned
    /\ UNCHANGED Others2p

\* parse_input, line 65: the items are exhausted.
ParseReturn ==
    /\ pc2p = "loop"
    /\ returned' = parsed
    /\ pc2p' = "returned"
    /\ UNCHANGED <<range_str, parsed, n_items, error>>
    /\ UNCHANGED Others2p

InitDay2Parse ==
    /\ Idle4 /\ Idle8 /\ Idle10 /\ Idle7 /\ Idle2 /\ IdleT /\ Idle1
    /\ Idle10b /\ Idle7a /\ Idle02m /\ Idle05 /\ Idle1p /\ Idlemn /\ Idle05f
    /\ Idle03 /\ Idle4o
    /\ ParseStart

NextDay2Parse == ParseItem \/ ParseReturn

SpecDay2Parse == InitDay2Parse /\ [][NextDay2Parse]_vars

\* The item reads as two numbers around one dash (blanks aside).
TwoNumbers(item) ==
    \E k \in 1 .. Len(item) :
        /\ item[k] = "-"
        /\ \A j \in 1 .. Len(item) : item[j] = "-" => j = k
        /\ \E j \in 1 .. k - 1 : item[j] \in Digits
        /\ \E j \in k + 1 .. Len(item) : item[j] \in Digits
        /\ \A j \in 1 .. Len(item) : item[j] \in Digits \cup {"-", " "}
        /\ \A h, j \in 1 .. k - 1 : \A g \in h .. j :
               (item[h] \in Digits /\ item[j] \in Digits) => item[g] \in Digits
        /\ \A h, j \in k + 1 .. Len(item) : \A g \in h .. j :
               (item[h] \in Digits /\ item[j] \in Digits) => item[g] \in Digits

\* The number written by the digits of s, in order.
NumberOf(s) ==
    LET ds == SelectSeq(s, LAMBDA c : c \in Digits)
    IN  int_digits(ds)

\* The two numbers of an item that has them.
StartOf(item) ==
    NumberOf(SubSeq(item, 1, (CHOOSE k \in 1 .. Len(item) : item[k] = "-") - 1))

EndOf(item) ==
    NumberOf(SubSeq(item, (CHOOSE k \in 1 .. Len(item) : item[k] = "-") + 1,
                    Len(item)))

\* A range item (not blank) that is non-numeric, has a non-positive bound or
\* has start > end.
Malformed(item) ==
    /\ \E k \in 1 .. Len(item) : item[k] # " "
    /\ \/ ~TwoNumbers(item)
       \/ StartOf(item) <= 0
       \/ EndOf(item) <= 0
       \/ StartOf(item) > EndOf(item)

\* s occurs in t as a run of consecutive characters.
OccursIn(s, t) ==
    \E k \in 0 .. Len(t) - Len(s) : SubSeq(t, k + 1, k + Len(s)) = s

\* C15: for every input text with a range item that is non-numeric, has
\* start > end or has a non-positive bound, parse_input raises a ValueError
\* whose message names the offending token, and returns no range list.
C15_ParseFailure ==
    (pc2p # "idle" /\ n_items > 0 /\ Malformed(range_str)) =>
        /\ pc2p = "ValueError"
        /\ returned = <<"None">>
        /\ error[2] = strip(range_str)
             \/ (error[1] = "invalid literal for int()"
                   /\ OccursIn(error[2], range_str)
                   /\ ~int_ok(error[2]))

\* C15 witness: a well-formed range has been taken, then an item with
\* start > end made parse_input raise.
C15_Witness ==
    /\ pc2p = "ValueError"
    /\ Len(parsed) >= 1
    /\ TwoNumbers(range_str)
    /\ StartOf(range_str) > EndOf(range_str)
    /\ EndOf(range_str) > 0
    /\ error = <<"Range start must be <= end", strip(range_str)>>

(***************************************************************************)
(* day02/main.py : the ranges main hands to invalid_finder                 *)
(***************************************************************************)
\* main, lines 42-44.
Main02Start ==
    /\ item02 = <<>>
    /\ handed02 = <<>>
    /\ n02 = 0
    /\ pc02 = "part1"

\* main, lines 46-51: one pass of the Part 1 loop, on the next item of the
\* first line of the file.  int() of a piece that is no number raises
\* ValueError; parts[1] of an item without dash raises IndexError.
Main02Item ==
    /\ pc02 = "part1"
    /\ n02 < MaxItems
    /\ \E i \in Tokens :
         LET parts == split(i, "-")
         IN  /\ item02' = i
             /\ IF ~int_ok(parts[1])
                THEN pc02' = "ValueError" /\ UNCHANGED handed02
                ELSE IF Len(parts) < 2
                THEN pc02' = "IndexError" /\ UNCHANGED handed02
                ELSE IF ~int_ok(parts[2])
                THEN pc02' = "ValueError" /\ UNCHANGED handed02
                ELSE /\ handed02' = Append(handed02, <<int(parts[1]), int(parts[2])>>)
                     /\ UNCHANGED pc02
    /\ n02' = n02 + 1
    /\ UNCHANGED Others02m

\* main, line 46: the items are exhausted.
Main02Done ==
    /\ pc02 = "part1"
    /\ pc02' = "part2"
    /\ UNCHANGED <<item02, handed02, n02>>
    /\ UNCHANGED Others02m

InitDay02Main ==
    /\ Idle4 /\ Idle8 /\ Idle10 /\ Idle7 /\ Idle2 /\ IdleT /\ Idle1
    /\ Idle10b /\ Idle7a /\ Idle2p /\ Idle05 /\ Idle1p /\ Idlemn /\ Idle05f
    /\ Idle03 /\ Idle4o
    /\ Main02Start

NextDay02Main == Main02Item \/ Main02Done

SpecDay02Main == InitDay02Main /\ [][NextDay02Main]_vars

(***************************************************************************)
(* day05/main.py : read_input                                              *)
(***************************************************************************)
MaxLineLen05 == 3
MaxLines05 == 3

\* The lines of the file (without the line end).
Lines05 == UNION {[1 .. n -> Alphabet] : n \in 0 .. MaxLineLen05}

RECURSIVE SortedByStart(_)
\* read_input, line 20: sorted() of a set on x[0].  Ranges of equal start
\* come in the set's iteration order, which is arbitrary.
SortedByStart(S) ==
    IF S = {} THEN {<<>>}
    ELSE LET least == {r \in S : \A q \in S : r[1] <= q[1]}
         IN  UNION {{<<r>> \o s : s \in SortedByStart(S \ {r})} : r \in least}

\* read_input, line 8.
Read05Start ==
    /\ line05 = <<>>
    /\ ranges05 = {}
    /\ ingredients05 = {}
    /\ sorted05 = <<>>
    /\ n05 = 0
    /\ pc05 = "read"

\* read_input, lines 10-18: one line of the file.
Read05Line ==
    /\ pc05 = "read"
    /\ n05 < MaxLines05
    /\ \E l \in Lines05 :
         LET line == strip(l)
             bounds == split(line, "-")
         IN  /\ line05' = l
             /\ IF line = <<>>
                THEN UNCHANGED <<ranges05, ingredients05, pc05>>
                ELSE IF \E k \in 1 .. Len(line) : line[k] = "-"
                THEN IF int_ok(bounds[1]) /\ int_ok(bounds[2])
                     THEN /\ ranges05' = ranges05 \cup
                                             {<<int(bounds[1]), int(bounds[2])>>}
                          /\ UNCHANGED <<ingredients05, pc05>>
                     ELSE /\ pc05' = "ValueError"
                          /\ UNCHANGED <<ranges05, ingredients05>>
                ELSE IF int_ok(line)
                THEN /\ ingredients05' = ingredients05 \cup {int(line)}
                     /\ UNCHANGED <<ranges05, pc05>>
                ELSE /\ pc05' = "ValueError"
                     /\ UNCHANGED <<ranges05, ingredients05>>
    /\ n05' = n05 + 1
    /\ UNCHANGED sorted05
    /\ UNCHANGED Others05

\* read_input, lines 20-22.
Read05Return ==
    /\ pc05 = "read"
    /\ sorted05' \in SortedByStart(ranges05)
    /\ pc05' = "returned"
    /\ UNCHANGED <<line05, ranges05, ingredients05, n05>>
    /\ UNCHANGED Others05

InitDay05Read ==
    /\ Idle4 /\ Idle8 /\ Idle10 /\ Idle7 /\ Idle2 /\ IdleT /\ Idle1
    /\ Idle10b /\ Idle7a /\ Idle2p /\ Idle02m /\ Idle1p /\ Idlemn /\ Idle05f
    /\ Idle03 /\ Idle4o
    /\ Read05Start

NextDay05Read == Read05Line \/ Read05Return

SpecDay05Read == InitDay05Read /\ [][NextDay05Read]_vars

\* C20: every range that a parser hands to a computation satisfies
\* start <= end: parse_input of day2/agent.py, main of day02/main.py and
\* read_input of day05/main.py never pass on a pair with start > end.
C20_RangeInvariant ==
    /\ returned # <<"None">> =>
           \A k \in 1 .. Len(returned) : returned[k][1] <= returned[k][2]
    /\ \A k \in 1 .. Len(handed02) : handed02[k][1] <= handed02[k][2]
    /\ pc05 = "returned" =>
           \A k \in 1 .. Len(sorted05) : sorted05[k][1] <= sorted05[k][2]

(***************************************************************************)
(* day1/agent.py : parse_rotation and parse_rotations                      *)
(***************************************************************************)
MaxLineLen1 == 3
MaxLines1 == 2

Alphabet1 == {"L", "R", "l", "1", "-", " "}

\* The lines of input_text (the text between two line ends).
Lines1 == UNION {[1 .. n -> Alphabet1] : n \in 0 .. MaxLineLen1}

\* str.upper() on one character of the alphabet.
upper(c) == CASE c = "l" -> "L" [] c = "r" -> "R" [] OTHER -> c

\* int(s) succeeds: blanks around an optional sign and at least one digit.
int_signed_ok(s) ==
    LET t == strip(s)
    IN  /\ t # <<>>
        /\ IF t[1] \in {"-", "+"}
           THEN Len(t) >= 2 /\ \A k \in 2 .. Len(t) : t[k] \in Digits
           ELSE \A k \in 1 .. Len(t) : t[k] \in Digits

\* int(s), where int_signed_ok(s)
int_signed(s) ==
    LET t == strip(s)
    IN  IF t[1] = "-" THEN 0 - int_digits(Tail(t))
        ELSE IF t[1] = "+" THEN int_digits(Tail(t))
        ELSE int_digits(t)

\* parse_rotation, lines 67-86.
parse_rotation(l) ==
    LET line == strip(l)
        direction_char == upper(line[1])
        distance_str == Tail(line)
    IN  IF line = <<>> \/ Len(line) < 2
        THEN [kind |-> "ValueError", msg |-> "Invalid rotation format", token |-> line]
        ELSE IF direction_char \notin {"L", "R"}
        THEN [kind |-> "ValueError", msg |-> "Invalid direction",
              token |-> <<direction_char>>]
        ELSE IF ~int_signed_ok(distance_str)
        THEN [kind |-> "ValueError", msg |-> "Invalid distance", token |-> distance_str]
        ELSE IF int_signed(distance_str) < 0
        THEN [kind |-> "ValueError", msg |-> "Distance must be non-negative",
              token |-> int_signed(distance_str)]
        ELSE [kind |-> "Rotation", direction |-> direction_char,
              distance |-> int_signed(distance_str)]

\* parse_rotations, line 99.
Parse1Start ==
    /\ line1 = <<>>
    /\ rotations1 = <<>>
    /\ line_num = 0
    /\ raw_num = 0
    /\ stripped1 = 0
    /\ error1 = <<>>
    /\ result1 = <<"None">>
    /\ pc1p = "loop"

\* parse_rotations, lines 100-107: the next line of input_text.  raw_num is
\* its number in input_text.  input_text.strip() removes the blank lines
\* before the first line that has a character other than blanks (stripped1
\* counts them), so enumerate numbers the lines from that line on.
Parse1Line ==
    /\ pc1p = "loop"
    /\ raw_num < MaxLines1
    /\ \E l \in Lines1 :
         LET line == strip(l)
             r == parse_rotation(line)
         IN  /\ line1' = l
             /\ IF line = <<>> /\ line_num = 0
                THEN /\ stripped1' = stripped1 + 1
                     /\ UNCHANGED <<line_num, rotations1, error1, pc1p>>
                ELSE /\ line_num' = line_num + 1
                     /\ UNCHANGED stripped1
                     /\ IF line = <<>>
                        THEN UNCHANGED <<rotations1, error1, pc1p>>
                        ELSE IF r.kind = "Rotation"
                        THEN /\ rotations1' = Append(rotations1,
                                                     <<r.direction, r.distance>>)
                             /\ UNCHANGED <<error1, pc1p>>
                        ELSE /\ error1' = <<[line_num |-> line_num + 1,
                                             msg |-> r.msg, token |-> r.token]>>
                             /\ pc1p' = "ValueError"
                             /\ UNCHANGED rotations1
    /\ raw_num' = raw_num + 1
    /\ UNCHANGED result1
    /\ UNCHANGED Others1p

\* parse_rotations, line 108.
Parse1Return ==
    /\ pc1p = "loop"
    /\ result1' = rotations1
    /\ pc1p' = "returned"
    /\ UNCHANGED <<line1, rotations1, line_num, raw_num, stripped1, error1>>
    /\ UNCHANGED Others1p

InitDay1Parse ==
    /\ Idle4 /\ Idle8 /\ Idle10 /\ Idle7 /\ Idle2 /\ IdleT /\ Idle1
    /\ Idle10b /\ Idle7a /\ Idle2p /\ Idle02m /\ Idle05 /\ Idlemn /\ Idle05f
    /\ Idle03 /\ Idle4o
    /\ Parse1Start

NextDay1Parse == Parse1Line \/ Parse1Return

SpecDay1Parse == InitDay1Parse /\ [][NextDay1Parse]_vars

\* What the line just read must lead to: a blank line is skipped, a line that
\* is no rotation raises the ValueError that names its number, and a rotation
\* is appended.  L and R are read in either case, as line 71 does.
LineOutcome1(number) ==
    LET t == strip(line1')
    IN  IF t = <<>>
        THEN rotations1' = rotations1 /\ pc1p' = "loop"
        ELSE IF \/ Len(t) < 2
                \/ t[1] \notin {"L", "R", "l", "r"}
                \/ ~int_signed_ok(Tail(t))
                \/ int_signed(Tail(t)) < 0
        THEN /\ pc1p' = "ValueError"
             /\ rotations1' = rotations1
             /\ error1'[1].line_num = number
        ELSE /\ pc1p' = "loop"
             /\ rotations1' = Append(rotations1,
                    <<IF t[1] \in {"L", "l"} THEN "L" ELSE "R", int_signed(Tail(t))>>)
             /\ int_signed(Tail(t)) >= 0

\* C16: parse_rotation raises ValueError for an empty or one-character line,
\* for a first character other than L or R, for a distance that is no integer
\* and for a negative distance, and otherwise returns the direction and a
\* distance >= 0; parse_rotations skips blank lines, returns the rotations in
\* input order (the empty list for empty input) and re-raises a failure as a
\* ValueError naming the 1-based number of the failing line of the input.
C16_Parsing ==
    /\ [][raw_num' = raw_num + 1 => LineOutcome1(raw_num')]_vars
    /\ [](pc1p = "returned" => result1 = rotations1)
    /\ [](pc1p = "returned" /\ raw_num = 0 => result1 = <<>>)
    /\ [](pc1p # "returned" => result1 = <<"None">>)

(***************************************************************************)
(* main of day1/agent.py and of day2/agent.py: opening the input file,     *)
(* parsing it, printing the answers                                        *)
(***************************************************************************)
Scripts == {"day1/agent.py", "day2/agent.py"}

\* A plausible slip: every main has the handlers of day1/agent.py.
main_on_error_handled(s, e) ==
    [pc |-> "returned", raised |-> "none", exit_code |-> <<1>>,
     printed |-> <<IF e = "FileNotFoundError" THEN "Error: input.txt not found"
                   ELSE "Error parsing input">>]

\* What main of script s does with the exception e raised inside it.
\* day1/agent.py, lines 322-344: the handlers print a message and return 1.
\* day2/agent.py, lines 243-254: no handler, the exception leaves main.
main_on_error(s, e) ==
    IF s = "day1/agent.py"
    THEN [pc |-> "returned", raised |-> "none", exit_code |-> <<1>>,
          printed |-> <<IF e = "FileNotFoundError" THEN "Error: input.txt not found"
                        ELSE "Error parsing input">>]
    ELSE [pc |-> "raised", raised |-> e, exit_code |-> <<>>, printed |-> <<>>]

\* The exception, if any, that the parser of script s has raised.
ParserError(s) ==
    CASE s = "day1/agent.py" -> IF pc1p = "ValueError" THEN "ValueError" ELSE "none"
      [] s = "day2/agent.py" -> IF pc2p = "ValueError" THEN "ValueError" ELSE "none"

\* The parser of script s has handed its result to main.
ParserDone(s) ==
    CASE s = "day1/agent.py" -> pc1p = "returned"
      [] s = "day2/agent.py" -> pc2p = "returned"

\* The script is started; its input file is there or not.
MainsStart ==
    /\ script \in Scripts
    /\ file_exists \in BOOLEAN
    /\ raised = "none"
    /\ exit_code = <<>>
    /\ printed = <<>>
    /\ pc_main = "open"

\* open() of the input file (day1/agent.py line 310, day2/agent.py line 246);
\* on success main goes on to parse the text.
MainOpen ==
    /\ pc_main = "open"
    /\ IF file_exists
       THEN /\ pc_main' = "parse"
            /\ pc1p' = IF script = "day1/agent.py" THEN "loop" ELSE pc1p
            /\ pc2p' = IF script = "day2/agent.py" THEN "loop" ELSE pc2p
            /\ UNCHANGED <<raised, exit_code, printed>>
       ELSE LET o == main_on_error(script, "FileNotFoundError")
            IN  /\ pc_main' = o.pc
                /\ raised' = o.raised
                /\ exit_code' = o.exit_code
                /\ printed' = o.printed
                /\ UNCHANGED <<pc1p, pc2p>>
    /\ UNCHANGED <<script, file_exists>>
    /\ UNCHANGED <<line1, rotations1, line_num, raw_num, stripped1, error1, result1>>
    /\ UNCHANGED <<range_str, parsed, n_items, error, returned>>
    /\ UNCHANGED OthersmnParsers

\* The parser has raised: the exception reaches main.
MainError ==
    /\ pc_main = "parse"
    /\ ParserError(script) # "none"
    /\ LET o == main_on_error(script, ParserError(script))
       IN  /\ pc_main' = o.pc
           /\ raised' = o.raised
           /\ exit_code' = o.exit_code
           /\ printed' = o.printed
    /\ UNCHANGED <<script, file_exists>>
    /\ UNCHANGED Othersmn

\* The text is parsed: main prints both answers (day1/agent.py lines 331-334,
\* day2/agent.py lines 253-254).  Only the lines
\* are recorded here, not the numbers on them.
MainPrint ==
    /\ pc_main = "parse"
    /\ ParserDone(script)
    /\ printed' = <<"Part 1", "Part 2">>
    /\ exit_code' = IF script = "day1/agent.py" THEN <<0>> ELSE <<"None">>
    /\ pc_main' = "returned"
    /\ UNCHANGED <<script, file_exists, raised>>
    /\ UNCHANGED Othersmn

InitDayMains ==
    /\ Idle4 /\ Idle8 /\ Idle10 /\ Idle7 /\ Idle2 /\ IdleT /\ Idle1
    /\ Idle10b /\ Idle7a /\ Idle2p /\ Idle02m /\ Idle05 /\ Idle1p /\ Idle05f
    /\ Idle03 /\ Idle4o
    /\ MainsStart

NextDayMains ==
    \/ MainOpen
    \/ Parse1Line
    \/ Parse1Return
    \/ ParseItem
    \/ ParseReturn
    \/ MainError
    \/ MainPrint

SpecDayMains == InitDayMains /\ [][NextDayMains]_vars

\* The run has met a missing input file or a malformed token, and main is over.
FaultMet ==
    /\ pc_main \notin {"open", "parse"}
    /\ \/ ~file_exists
       \/ ParserError(script) # "none"

C18_NoPartialResults ==
    pc8 \in {"done", "TypeError"} => Len(out8) \in {0, 2}

(***************************************************************************)
(* day2/agent.py and day02/main.py : the edge cases of the two tests       *)
(***************************************************************************)
\* The decimal string of n >= 0 has an odd number of digits.
OddLength(n) == n < 10 \/ DecLen(n) % 2 = 1

\* The ids, 0 included, that the current call has tested.
ScannedFrom0 == {n \in ranges[ri][1] .. (product_id - 1) : n >= 0}

\* C19: for every non-negative integer n that a scanned range can contain,
\* n never matches exact-double when its digit string has odd length, and a
\* single-digit n (0 to 9) matches neither exact-double nor general
\* repetition, for is_invalid_part1 / is_invalid_part2 and for day02
\* invalid_finder / pattern_finder.
C19_EdgeCases ==
    pc2 = "scan" =>
        \A n \in ScannedFrom0 :
            /\ (validator = "part1" /\ OddLength(n)) =>
                   /\ ~is_invalid_part1(n)
                   /\ ~invalid_finder(n)
                   /\ n \notin Elems(invalid_ids)
                   /\ n \notin Elems(invalid_ids02)
            /\ n <= 9 =>
                   /\ ~Validates(validator, n)
                   /\ ~Finds02(validator, n)
                   /\ n \notin Elems(invalid_ids)
                   /\ n \notin Elems(invalid_ids02)

(***************************************************************************)
(* day4/main.py : one round is decided on the grid as it was               *)
(***************************************************************************)
\* The occupied cells of g with fewer than 4 occupied neighbours.
Accessible4(g) == {c \in Occupied(g) : Cardinality(OccupiedAround(g, c)) < 4}

\* C21: round atomicity.  roll_access leaves grid_map unchanged (the call of
\* Part 1 changes nothing), the set it returns is exactly the '@' cells with
\* fewer than 4 '@' neighbours in the grid as it was at the start of the
\* round, so no removal of a round influences another decision of that round,
\* and a round changes these cells only: cells that do not hold '@' stay.
C21_RoundAtomicity ==
    [][/\ pc4 = "part1" => grid_map' = grid_map
       /\ pc4 = "loop" =>
              LET due == Accessible4(grid_map)
              IN  /\ roll_access(grid_map) = due
                  /\ grid_map' = [c \in DOMAIN grid_map |->
                                     IF c \in due THEN "." ELSE grid_map[c]]]_vars

\* C21 witness: the first round is over; a cell it left in place has fewer
\* than 4 occupied neighbours only now that the round's cells are cleared,
\* and an empty cell of the input is still empty.
C21_Witness ==
    /\ pc4 = "loop"
    /\ p1_rolls > 0
    /\ Occupied(grid_map) = Occupied(input_lines) \ FirstRound4
    /\ \E c \in roll_access(grid_map) : c \notin FirstRound4
    /\ \E c \in DOMAIN grid_map : input_lines[c] = "." /\ grid_map[c] = "."

(***************************************************************************)
(* day4/main.py : the removal loop ends                                    *)
(***************************************************************************)
LiveRows == 3
LiveCols == 4
LiveEmpty == 2

LiveCells4 == (0 .. LiveRows - 1) \X (0 .. LiveCols - 1)

InitDay4Fair ==
    /\ Idle8 /\ Idle10 /\ Idle7 /\ Idle2 /\ IdleT /\ Idle1 /\ Idle10b
    /\ Idle7a /\ Idle2p /\ Idle02m /\ Idle05 /\ Idle1p /\ Idlemn /\ Idle05f
    /\ Idle03 /\ Idle4o
    /\ ReadGridOf4(LiveCells4, LiveEmpty)

\* The while loop of main is taken again as long as it has not left by break.
SpecDay4Fair == InitDay4Fair /\ [][NextDay4]_vars /\ WF_vars(NextDay4)

\* C22: for every finite grid the removal loop of main terminates; the set of
\* '@' cells never grows, it strictly shrinks in every round that does not
\* end the loop, and the number of rounds is at most the number of '@' cells
\* of the input plus one.
C22_Termination ==
    /\ <>(pc4 = "done")
    /\ [][/\ Occupied(grid_map') \subseteq Occupied(grid_map)
          /\ (pc4 = "loop" /\ pc4' = "loop") =>
                 Occupied(grid_map') # Occupied(grid_map)]_vars
    /\ [](rounds4 <= Cardinality(Occupied(input_lines)) + 1)

\* C22 witness: the loop has ended in its fourth round, after three rounds
\* that each cleared cells.
C22_Witness ==
    /\ pc4 = "done"
    /\ rounds4 = 4
    /\ total_rolls > p1_rolls

(***************************************************************************)
(* day10/main.py : the breadth-first loop of p1 ends                       *)
(***************************************************************************)
\* The while loop of p1 goes on as long as the queue is not empty.  The model
\* follows the search up to MaxPresses presses; a search that gets there
\* never ends, because every entry it appends carries a press count that no
\* key of visited has.
SpecDay10Fair == SpecDay10 /\ WF_vars(NextDay10)

LineMaxX == 7
LinePoints == 4

\* Points on the x axis, in ascending file order.
LineLists8 ==
    UNION {{c \in [1 .. n -> {<<x, 0, 0>> : x \in 0 .. LineMaxX}] :
               \A j, k \in 1 .. n : j < k => c[j][1] < c[k][1]} : n \in 1 .. LinePoints}

InitDay8Line ==
    /\ Idle4 /\ Idle10 /\ Idle7 /\ Idle2 /\ IdleT /\ Idle1 /\ Idle10b
    /\ Idle7a /\ Idle2p /\ Idle02m /\ Idle05 /\ Idle1p /\ Idlemn /\ Idle05f
    /\ Idle03 /\ Idle4o
    /\ Main8Of(LineLists8)

SpecDay8Line == InitDay8Line /\ [][NextDay8]_vars

\* The number of pairs of the sorted list that p1 has processed: the loop
\* index, and the pair at the index once the loop has left by break.
Processed8 == IF last_connection # None8 THEN i8 + 1 ELSE i8

ProcessedPairs8 == {distances[j] : j \in 1 .. Processed8}

\* C24: after p1 has processed any prefix of the sorted pair list, two points
\* carry the same group id iff a chain of processed pairs connects them, and
\* a point has no group id iff no processed pair contains it; when a pair
\* bridges two groups, every member of one group is relabelled to the id of
\* the other group and no other id changes.
C24_Grouping ==
    /\ [](LET E == ProcessedPairs8
          IN  /\ DOMAIN connections = {e[1] : e \in E} \cup {e[2] : e \in E}
              /\ \A p \in DOMAIN connections :
                     {q \in DOMAIN connections : connections[q] = connections[p]}
                         = Linked8({p}, E))
    /\ [][(pc8 = "loop" /\ i8' = i8 + 1) =>
             LET a == distances[i8 + 1][1]
                 b == distances[i8 + 1][2]
             IN  (/\ a \in DOMAIN connections
                  /\ b \in DOMAIN connections
                  /\ connections[a] # connections[b]) =>
                     /\ DOMAIN connections' = DOMAIN connections
                     /\ \A n \in DOMAIN connections :
                            connections'[n] =
                                IF connections[n] = connections[b]
                                THEN connections[a] ELSE connections[n]]_vars

\* C24 witness: a pair has bridged two groups of two points each; the four
\* points carry one id and no pair has been reported as the last connection.
C24_Witness ==
    /\ pc8 = "loop"
    /\ group_id = 3
    /\ last_connection = None8
    /\ Cardinality(DOMAIN connections) = 4
    /\ Cardinality({connections[n] : n \in DOMAIN connections}) = 1

(***************************************************************************)
(* day1/agent.py : the dial position                                       *)
(***************************************************************************)
\* p is the residue of a modulo 100: p is in 0..99 and differs from a by a
\* multiple of 100.
IsResidue100(p, a) == p \in 0 .. 99 /\ \E k \in -5 .. 5 : a = p + 100 * k

MaxBound05 == 5
MaxRanges05 == 3

\* start = None, end = None; a value v is held as <<v>>
None05 == <<>>

Ranges05 == {r \in (0 .. MaxBound05) \X (0 .. MaxBound05) : r[1] <= r[2]}

\* The lists read_input returns for input with start <= end in every range:
\* at most `most` distinct ranges, sorted by start.
RangeLists05(most) ==
    UNION {SortedByStart(S) : S \in SubsetsUpTo(Ranges05, most)}

\* all_fresh, lines 26-28.
Fresh05Start ==
    /\ ranges_f \in RangeLists05(MaxRanges05)
    /\ i_f = 0
    /\ start_f = None05
    /\ end_f = None05
    /\ fresh_count = 0
    /\ result_f = None05
    /\ pc05f = "loop"

\* all_fresh, lines 29-51: one iteration of the for loop.  In the last
\* iteration r[0] <= end compares an int with None when end was never set.
Fresh05Step ==
    /\ pc05f = "loop"
    /\ i_f < Len(ranges_f)
    /\ LET r == ranges_f[i_f + 1]
           start == start_f[1]
           end == end_f[1]
       IN  IF i_f = Len(ranges_f) - 1
           THEN IF end_f = None05
                THEN /\ pc05f' = "TypeError"
                     /\ UNCHANGED <<fresh_count, start_f, end_f, i_f>>
                ELSE /\ fresh_count' =
                            IF r[1] <= end /\ end <= r[2]
                            THEN fresh_count + (r[2] - start + 1)
                            ELSE fresh_count + (end - start + 1)
                                             + (r[2] - r[1] + 1)
                     /\ pc05f' = "break"
                     /\ UNCHANGED <<start_f, end_f, i_f>>
           ELSE /\ IF start_f = None05
                   THEN /\ start_f' = <<r[1]>>
                        /\ end_f' = <<r[2]>>
                        /\ UNCHANGED fresh_count
                   ELSE IF r[1] <= end /\ end <= r[2]
                   THEN /\ end_f' = <<r[2]>>
                        /\ UNCHANGED <<start_f, fresh_count>>
                   ELSE IF end >= r[2]
                   THEN UNCHANGED <<start_f, end_f, fresh_count>>
                   ELSE /\ fresh_count' = fresh_count + (end - start + 1)
                        /\ start_f' = <<r[1]>>
                        /\ end_f' = <<r[2]>>
                /\ i_f' = i_f + 1
                /\ UNCHANGED pc05f
    /\ UNCHANGED <<ranges_f, result_f>>
    /\ UNCHANGED Others05f

\* all_fresh, line 52, after the break or when the list is empty.
Fresh05Return ==
    /\ \/ pc05f = "break"
       \/ pc05f = "loop" /\ i_f >= Len(ranges_f)
    /\ result_f' = <<fresh_count>>
    /\ pc05f' = "done"
    /\ UNCHANGED <<ranges_f, i_f, start_f, end_f, fresh_count>>
    /\ UNCHANGED Others05f

InitDay05Fresh ==
    /\ Idle4 /\ Idle8 /\ Idle10 /\ Idle7 /\ Idle2 /\ IdleT /\ Idle1
    /\ Idle10b /\ Idle7a /\ Idle2p /\ Idle02m /\ Idle05 /\ Idle1p /\ Idlemn
    /\ Idle03 /\ Idle4o
    /\ Fresh05Start

NextDay05Fresh == Fresh05Step \/ Fresh05Return

SpecDay05Fresh == InitDay05Fresh /\ [][NextDay05Fresh]_vars

\* The integers that lie in at least one range of the list.
Covered05(list) == UNION {list[j][1] .. list[j][2] : j \in 1 .. Len(list)}

\* C26: for every non-empty list of distinct ranges with start <= end, sorted
\* by start (a list of one range and a last range inside the accumulated
\* range included), all_fresh returns the number of distinct integers that
\* lie in at least one range.
C26_AllFresh ==
    (Len(ranges_f) >= 1 /\ pc05f \in {"done", "TypeError"}) =>
        /\ pc05f = "done"
        /\ result_f = <<Cardinality(Covered05(ranges_f))>>

(***************************************************************************)
(* day03/main.py : largest_12_volts_grouped and largest_12_volts           *)
(* (day3/main.py holds the same largest_12_volts and calls it from main)   *)
(***************************************************************************)
Required == 12
MaxExtra03 == 1

HeadLen03 == 8

BankDigits03 == {0, 1, 9}

\* A bank is a line of digits; here a run of HeadLen03 equal digits followed
\* by any digits, of length Required .. Required + MaxExtra03 in all.
Banks03 ==
    {[i \in 1 .. HeadLen03 |-> d] \o tail :
         d \in BankDigits03,
         tail \in UNION {[1 .. n -> BankDigits03] :
                            n \in Required - HeadLen03 ..
                                  Required - HeadLen03 + MaxExtra03}}

\* int(s) for a string of digits: the number is held as its decimal digits
\* without leading zeros (int("007") = int("7"), int("000") = 0 is <<>>).
RECURSIVE int03(_)
int03(s) ==
    IF s = <<>> THEN <<>>
    ELSE IF Head(s) = 0 THEN int03(Tail(s))
    ELSE s

\* a < b for two numbers held as digits without leading zeros.
RECURSIVE IntLess(_, _)
IntLess(a, b) ==
    IF Len(a) # Len(b) THEN Len(a) < Len(b)
    ELSE IF a = <<>> THEN FALSE
    ELSE IF Head(a) # Head(b) THEN Head(a) < Head(b)
    ELSE IntLess(Tail(a), Tail(b))

IntLeq(a, b) == a = b \/ IntLess(a, b)

\* max(...) of a non-empty set of numbers.
IntMax(S) == CHOOSE m \in S : \A x \in S : IntLeq(x, m)

\* sorted(ordered_bank, key=value, reverse=True), lines 72-76: the pairs
\* (index, digit), largest digit first, equal digits in index order
\* (indices count from 0).
ordered_bank_of(current_str) ==
    LET n == Len(current_str)
        before(i) == {j \in 1 .. n : \/ current_str[j] > current_str[i]
                                     \/ /\ current_str[j] = current_str[i]
                                        /\ j < i}
    IN  [k \in 1 .. n |->
            LET i == CHOOSE i \in 1 .. n : Cardinality(before(i)) = k - 1
            IN  <<i - 1, current_str[i]>>]

\* The inner for loop, lines 80-88: the position in ordered_bank of the first
\* pair whose index lies strictly between previous_index and max_index, or 0.
FirstUsable03(ordered_bank, previous_index, max_index) ==
    LET ok == {i \in 1 .. Len(ordered_bank) :
                  /\ previous_index < ordered_bank[i][1]
                  /\ ordered_bank[i][1] < max_index}
    IN  IF ok = {} THEN 0 ELSE CHOOSE i \in ok : \A k \in ok : i <= k

\* The outer for loop, lines 79-88.
RECURSIVE grouped_loop(_, _, _, _, _, _)
grouped_loop(n, required, digit_index, ordered_bank, previous_index, joltage) ==
    IF digit_index >= required THEN joltage
    ELSE LET max_index == n - required + digit_index + 1
             i == FirstUsable03(ordered_bank, previous_index, max_index)
         IN  IF i = 0
             THEN grouped_loop(n, required, digit_index + 1, ordered_bank,
                               previous_index, joltage)
             ELSE grouped_loop(n, required, digit_index + 1,
                               SubSeq(ordered_bank, 1, i - 1)
                                   \o SubSeq(ordered_bank, i + 1, Len(ordered_bank)),
                               ordered_bank[i][1],
                               Append(joltage, ordered_bank[i][2]))

\* largest_12_volts_grouped, lines 66-89.
largest_12_volts_grouped(current_str, required) ==
    int03(grouped_loop(Len(current_str), required, 0,
                       ordered_bank_of(current_str), -1, <<>>))

\* max_idx.get(len(current_str), -1): the number -1, written <<-1>>, is
\* below every int(...).
MinusOne03 == <<-1>>

NoMax03 == [i \in 1 .. Required |-> MinusOne03]

\* recursor, lines 32-53, with the closure variables mem, maxes and max_idx
\* passed in and returned as the record st.
RECURSIVE recursor(_, _, _, _)
RECURSIVE recursor_for(_, _, _, _)
recursor(nums, current_str, idx, st) ==
    LET value == int03(current_str)
        len == Len(current_str)
    IN  IF st.max_idx[len] # MinusOne03 /\ IntLeq(value, st.max_idx[len]) THEN st
        ELSE IF value \in st.mem THEN st
        ELSE IF len = Required
        THEN [mem |-> st.mem \cup {value},
              maxes |-> st.maxes \cup {value},
              max_idx |-> [i \in 1 .. Required |-> int03(SubSeq(current_str, 1, i))]]
        ELSE recursor_for(nums, current_str, idx, st)

\* for j in range(idx, len(nums)): recursor(current_str + nums[j], j + 1)
recursor_for(nums, current_str, j, st) ==
    IF j >= Len(nums) THEN st
    ELSE CHOOSE r \in {recursor_for(nums, current_str, j + 1, after) :
                          after \in {recursor(nums, Append(current_str, nums[j + 1]),
                                              j + 1, st)}} :
             TRUE

\* for idx in indexes: recursor(nums[idx], idx + 1), lines 56-58
RECURSIVE indexes_for(_, _, _, _)
indexes_for(nums, p, idx, st) ==
    IF idx >= Len(nums) THEN st
    ELSE CHOOSE r \in {indexes_for(nums, p, idx + 1, after) :
                          after \in {IF nums[idx + 1] = p
                                     THEN recursor(nums, <<nums[idx + 1]>>,
                                                   idx + 1, st)
                                     ELSE st}} :
             TRUE

\* for p in possibles (9 down to 0), lines 55-60, leaving at the first digit
\* that produced a maximum.
RECURSIVE possibles_for(_, _, _)
possibles_for(nums, p, st) ==
    IF p < 0 THEN st
    ELSE LET after == indexes_for(nums, p, 0, st)
         IN  IF after.maxes # {} THEN after
             ELSE possibles_for(nums, p - 1, after)

\* largest_12_volts, lines 24-62; max() of an empty list raises ValueError.
largest_12_volts(bank) ==
    LET st == possibles_for(bank, 9, [mem |-> {}, maxes |-> {}, max_idx |-> NoMax03])
    IN  IF st.maxes = {} THEN "ValueError" ELSE IntMax(st.maxes)

\* main of day03 and of day3, for one line of the input.
Main03Start ==
    /\ bank03 \in Banks03
    /\ res_grouped = <<>>
    /\ res_recursive = <<>>
    /\ pc03 = "line"

\* day03/main.py line 100: res = largest_12_volts_grouped(line)
Main03Grouped ==
    /\ pc03 = "line"
    /\ res_grouped = <<>>
    /\ res_grouped' = <<largest_12_volts_grouped(bank03, Required)>>
    /\ UNCHANGED <<bank03, res_recursive, pc03>>
    /\ UNCHANGED Others03

\* day3/main.py line 72: res = largest_12_volts(line)
Main3Recursive ==
    /\ pc03 = "line"
    /\ res_recursive = <<>>
    /\ res_recursive' = <<largest_12_volts(bank03)>>
    /\ UNCHANGED <<bank03, res_grouped, pc03>>
    /\ UNCHANGED Others03

InitDay03 ==
    /\ Idle4 /\ Idle8 /\ Idle10 /\ Idle7 /\ Idle2 /\ IdleT /\ Idle1
    /\ Idle10b /\ Idle7a /\ Idle2p /\ Idle02m /\ Idle05 /\ Idle1p /\ Idlemn
    /\ Idle05f /\ Idle4o
    /\ Main03Start

NextDay03 == Main03Grouped \/ Main3Recursive

SpecDay03 == InitDay03 /\ [][NextDay03]_vars

\* The numbers obtained by keeping Required digits of the bank in their order.
RECURSIVE Kept03(_, _)
Kept03(bank, k) ==
    IF k = 0 THEN {<<>>}
    ELSE IF Len(bank) < k THEN {}
    ELSE {<<Head(bank)>> \o t : t \in Kept03(Tail(bank), k - 1)}
             \cup Kept03(Tail(bank), k)

LargestKept03(bank) == IntMax({int03(t) : t \in Kept03(bank, Required)})

\* C27: for every bank of at least 12 digits the greedy
\* largest_12_volts_grouped returns the same value as the original recursive
\* largest_12_volts, and that value is the largest number obtainable by
\* keeping 12 digits of the bank in their original order.
C27_Rewrite ==
    (res_grouped # <<>> /\ res_recursive # <<>>) =>
        /\ res_grouped = res_recursive
        /\ res_grouped = <<LargestKept03(bank03)>>

(***************************************************************************)
(* day7/main.py : main runs solve_1 and solve_2 on the same file           *)
(***************************************************************************)
\* solve_1, lines 22-35, reading the file that solve_2 reads.
ReadGrid7Main ==
    /\ ReadGrid7
    /\ grid1 = grid7
    /\ start_pos1 = start_pos
    /\ grid_len1 = grid_len
    /\ row_len1 = row_len
    /\ cache = {}
    /\ split_count = 0
    /\ expanded = <<>>
    /\ pc7a = "solve_1"

\* main, line 112.
Main7Solve1 == Solve1

\* main, line 113.
Main7Solve2 == pc7a = "done" /\ Solve2_7

InitDay7Main ==
    /\ Idle4 /\ Idle8 /\ Idle10 /\ Idle2 /\ IdleT /\ Idle1 /\ Idle10b
    /\ Idle2p /\ Idle02m /\ Idle05 /\ Idle1p /\ Idlemn /\ Idle05f /\ Idle03
    /\ Idle4o
    /\ ReadGrid7Main

NextDay7Main == Main7Solve1 \/ Main7Solve2

SpecDay7Main == InitDay7Main /\ [][NextDay7Main]_vars

RECURSIVE traverse2_calls(_)
\* The positions solve_2.traverse is called with, lines 97, 100, 102 and 106,
\* starting with the call for pos.
traverse2_calls(pos) ==
    LET y == pos[1]
        x == pos[2]
        ny == y + dirs_d[1]
        nx == x + dirs_d[2]
        next == Get7(ny, nx)
    IN  {pos} \cup
        (IF y + dirs_d[1] > grid_len THEN {}
         ELSE IF next = "^"
         THEN (IF 0 <= nx + dirs_l[2] /\ nx + dirs_l[2] <= row_len
               THEN traverse2_calls(<<ny, nx + dirs_l[2]>>) ELSE {})
              \cup (IF 0 <= nx + dirs_r[2] /\ nx + dirs_r[2] <= row_len
                    THEN traverse2_calls(<<ny, nx + dirs_r[2]>>) ELSE {})
         ELSE IF next = "."
         THEN traverse2_calls(<<ny, nx>>)
         ELSE {})

\* 0 <= row <= last row and 0 <= column < row length
IsCell7(p) == p[1] \in 0 .. grid_len /\ p[2] \in 0 .. row_len - 1

\* C28: every position traverse is called with in solve_1 (the positions
\* added to cache) and in solve_2 is a cell of the grid, and solve_2 counts
\* no beam that has left the grid sideways: no position outside the grid
\* contributes a path.
C28_BeamsOnGrid ==
    pc7 = "done" =>
        /\ \A p \in cache : IsCell7(p)
        /\ \A p \in traverse2_calls(start_pos) :
               /\ IsCell7(p)
               /\ p \notin DOMAIN grid7 => traverse2(p, None7) = 0

RECURSIVE traverse2_by_pos(_, _)
\* solve_2.traverse with the results stored under the position alone: memo
\* maps the positions already computed to their path counts; the result is
\* the path count of pos and the memo after the call.
traverse2_by_pos(pos, memo) ==
    IF pos \in DOMAIN memo THEN [total |-> memo[pos], memo |-> memo]
    ELSE
    LET y == pos[1]
        x == pos[2]
        ny == y + dirs_d[1]
        nx == x + dirs_d[2]
        next == Get7(ny, nx)
        none == [total |-> 0, memo |-> memo]
        store(total, m) == [total |-> total, memo |-> (pos :> total) @@ m]
    IN  IF y + dirs_d[1] > grid_len THEN store(1, memo)
        ELSE IF next = "^"
        THEN LET left == IF 0 <= nx + dirs_l[2] /\ nx + dirs_l[2] <= row_len
                         THEN traverse2_by_pos(<<ny, nx + dirs_l[2]>>, memo)
                         ELSE none
                 right == IF 0 <= nx + dirs_r[2] /\ nx + dirs_r[2] <= row_len
                          THEN traverse2_by_pos(<<ny, nx + dirs_r[2]>>, left.memo)
                          ELSE [total |-> 0, memo |-> left.memo]
             IN  store(left.total + right.total, right.memo)
        ELSE IF next = "."
        THEN LET down == traverse2_by_pos(<<ny, nx>>, memo)
             IN  store(down.total, down.memo)
        ELSE store(0, memo)

\* The previous positions traverse is called with for the position p, among
\* the positions calls that traverse is called with; each is a cell.
PrevsOf7(p, calls) ==
    {q \in calls \cap DOMAIN grid7 :
        /\ q[1] + 1 = p[1]
        /\ \/ q[2] = p[2] /\ Get7(p[1], q[2]) = "."
           \/ /\ Get7(p[1], q[2]) = "^"
              /\ p[2] \in {q[2] - 1, q[2] + 1}
              /\ 0 <= p[2] /\ p[2] <= row_len}

\* C30: in solve_2 the value of traverse(pos, prev_pos) depends only on pos:
\* for every position traverse is called with, every previous position (any
\* cell of the grid, those it is called with among them) gives the same path
\* count as None, and storing the results under the position alone gives
\* the same Part 2 answer.
C30_MemoKey ==
    pc7 = "done" =>
        /\ \A p \in traverse2_calls(start_pos) :
               LET total == traverse2(p, None7)
               IN  \A a \in DOMAIN grid7 : traverse2(p, a) = total
        /\ unique_paths = traverse2_by_pos(start_pos, <<>>).total

\* A position of the last row is reached from two previous positions, and
\* its stored path count is used for the second of them.
C30_Witness ==
    /\ pc7 = "done"
    /\ unique_paths = 3
    /\ LET calls == traverse2_calls(start_pos)
       IN  \E p \in calls :
               /\ Cardinality(PrevsOf7(p, calls)) = 2
               /\ p \in DOMAIN traverse2_by_pos(start_pos, <<>>).memo

(***************************************************************************)
(* day4/main.py : main, followed by a replay that clears one cell at a     *)
(* time on the same input                                                  *)
(***************************************************************************)
OneRows == 3
OneCols == 4
OneEmpty == 1

OneCells4 == (0 .. OneRows - 1) \X (0 .. OneCols - 1)

\* main, lines 39-42; the replay starts from the same grid.
ReadGrid4One ==
    /\ ReadGridOf4(OneCells4, OneEmpty)
    /\ grid_one = input_lines
    /\ cleared_one = 0

\* One '@' cell that roll_access would return for the current grid of the
\* replay (fewer than 4 '@' neighbours, lines 23-34) is set to '.'; any such
\* cell may be taken.
ClearOne4 ==
    /\ pc4 = "done"
    /\ \E c \in roll_access(grid_one) :
           grid_one' = [grid_one EXCEPT ![c] = "."]
    /\ cleared_one' = cleared_one + 1
    /\ UNCHANGED Others4o

\* main, lines 44-56, with the replay waiting.
Main4Part1 == Part1_4 /\ UNCHANGED vars4o

Main4Loop == MainLoop4 /\ UNCHANGED vars4o

InitDay4One ==
    /\ Idle8 /\ Idle10 /\ Idle7 /\ Idle2 /\ IdleT /\ Idle1 /\ Idle10b
    /\ Idle7a /\ Idle2p /\ Idle02m /\ Idle05 /\ Idle1p /\ Idlemn
    /\ Idle05f /\ Idle03
    /\ ReadGrid4One

NextDay4One == Main4Part1 \/ Main4Loop \/ ClearOne4

SpecDay4One == InitDay4One /\ [][NextDay4One]_vars

====
